---- MODULE Spec2Model ----
(***************************************************************************)
(* A model of the data-access and service layers of the FastAPI template:  *)
(* the SQLAlchemy session the code drives (identity map, flush, commit,    *)
(* rollback), the two generic repositories, the unit of work and the       *)
(* Item/User services.                                                     *)
(*                                                                         *)
(* The relational store is one function from <<class, id>> to the row.     *)
(* A session sees the committed rows overlaid with the rows it has flushed *)
(* and not yet committed (READ COMMITTED); another session sees only the   *)
(* committed rows, the variable db.                                        *)
(***************************************************************************)
EXTENDS Integers, Sequences, FiniteSets, TLC

\* Bounds of the model: the largest primary key each sequence hands out and
\* the number of sessions the session factory is asked for.
MaxItemId == 2
MaxUserId == 1
MaxSessions == 2
MaxNodes == 5
MaxRequests == 2

Classes == {"Item", "User"}

MaxIdOf(cls) == IF cls = "Item" THEN MaxItemId ELSE MaxUserId

\* An optional value (x | None) is the set {} or {x}.
Opt(S) == {{}} \cup {{x} : x \in S}

\* Input values of the str fields.  "default" is the protected title,
\* "" the empty (falsy) string.
Titles == {"", "Alpha", "default"}
Descriptions == {"d"}

----------------------------------------------------------------------------
(* Functions as tables *)

Put(f, k, v) == [x \in DOMAIN f \cup {k} |-> IF x = k THEN v ELSE f[x]]

Without(f, S) == [x \in DOMAIN f \ S |-> f[x]]

Overlay(f, g) == [x \in DOMAIN f \cup DOMAIN g |-> IF x \in DOMAIN g THEN g[x] ELSE f[x]]

EmptyTable == [x \in {} |-> x]

----------------------------------------------------------------------------
(* The session (sqlalchemy AsyncSession, autoflush=False)                  *)
(*                                                                         *)
(* A context c is what one handler threads through its statements:         *)
(*   c.db     the committed rows                                           *)
(*   c.seq    the next value of each table's primary-key sequence          *)
(*   c.s      the session: pending (added, not flushed) objects, dirty     *)
(*            (attributes set in memory, not flushed) rows, objects marked *)
(*            deleted, the flushed, uncommitted writes, and the committed  *)
(*            rows the transaction has deleted (gone)                      *)
(*   c.calls  the calls the handler has made on the session, in order      *)
(***************************************************************************)

EmptySession ==
    [pending |-> <<>>, dirty |-> EmptyTable, deleted |-> {},
     writes |-> EmptyTable, gone |-> {}]

Log(c, call) == [c EXCEPT !.calls = Append(@, call)]

\* What a SELECT of this session returns: committed rows, overlaid with the
\* session's own flushed writes, without the rows it has deleted.
View(c) == Without(Overlay(c.db, c.s.writes), c.s.gone)

\* The row an INSERT of a new object stores: the primary key from the
\* sequence, and the server default of a column the object leaves unset.
InsertRow(cls, obj, id) ==
    IF cls = "Item"
    THEN [id |-> id, title |-> obj.title, description |-> obj.description,
          is_active |-> IF obj.is_active = {} THEN TRUE ELSE TRUE \in obj.is_active,
          owner_id |-> {}]
    ELSE [id |-> id]

RECURSIVE FlushPending(_)
FlushPending(c) ==
    IF c.s.pending = <<>> THEN c
    ELSE LET p == Head(c.s.pending)
             id == c.seq[p.cls]
         IN FlushPending([c EXCEPT !.seq[p.cls] = id + 1,
                                   !.s.pending = Tail(@),
                                   !.s.writes = Put(@, <<p.cls, id>>, InsertRow(p.cls, p.obj, id))])

\* The unit-of-work flush: INSERT the pending, UPDATE the dirty, DELETE the
\* deleted; all inside the transaction.  The UPDATE of an object whose
\* primary key attribute was assigned moves its row to the new key.
FlushState(c) ==
    LET c1 == FlushPending(c)
        moved == {k \in DOMAIN c1.s.dirty : c1.s.dirty[k].id # k[2]}
        rekeyed == [j \in {<<k[1], c1.s.dirty[k].id>> : k \in DOMAIN c1.s.dirty} |->
                      c1.s.dirty[CHOOSE k \in DOMAIN c1.s.dirty :
                                    <<k[1], c1.s.dirty[k].id>> = j]]
        w == Without(Overlay(Without(c1.s.writes, moved), rekeyed), c1.s.deleted)
    IN [c1 EXCEPT !.s.writes = w,
                  !.s.gone = ((@ \cup c1.s.deleted \cup moved) \ DOMAIN w)
                                \cap DOMAIN c1.db,
                  !.s.dirty = EmptyTable,
                  !.s.deleted = {}]

SessionAdd(c, cls, obj) ==
    [Log(c, "add") EXCEPT !.s.pending = Append(@, [cls |-> cls, obj |-> obj])]

\* session.add of an object that is already persistent changes nothing.
SessionAddPersistent(c) == Log(c, "add")

SessionFlush(c) == FlushState(Log(c, "flush"))

\* The object session.get returns: the identity map's object (with the
\* attributes set in memory), else the row a SELECT by primary key finds.
Lookup(c, k) ==
    IF k \in DOMAIN c.s.dirty THEN {c.s.dirty[k]}
    ELSE IF k \in DOMAIN View(c) THEN {View(c)[k]}
    ELSE {}

SessionGet(c, cls) == Log(c, "get " \o cls)

SessionExecute(c, cls) == Log(c, "execute " \o cls)

SetAttr(c, k, row) == [Log(c, "setattr") EXCEPT !.s.dirty = Put(@, k, row)]

SessionDelete(c, k) == [Log(c, "delete") EXCEPT !.s.deleted = @ \cup {k}]

\* refresh reloads the object's attributes from its row.
SessionRefresh(c, k) == [Log(c, "refresh") EXCEPT !.s.dirty = Without(@, {k})]

\* commit flushes and makes the transaction's writes the committed rows.
SessionCommit(c) ==
    LET c1 == FlushState(Log(c, "commit"))
    IN [c1 EXCEPT !.db = View(c1), !.s = EmptySession]

\* A commit the store refuses: nothing of the transaction is committed.
SessionCommitFailed(c) == [Log(c, "commit") EXCEPT !.s = EmptySession]

SessionRollback(c) == [Log(c, "rollback") EXCEPT !.s = EmptySession]

\* A rollback that fails (connection lost): the store drops the transaction.
SessionRollbackFailed(c) == [Log(c, "rollback") EXCEPT !.s = EmptySession]

SessionClose(c) == [Log(c, "close") EXCEPT !.s = EmptySession]

----------------------------------------------------------------------------
VARIABLES
    db,         \* the committed rows, <<class, id>> -> row
    seq,        \* class -> next primary key of its sequence
    sess,       \* the state of the session in use
    made,       \* sessions the session factory has returned (handles 1..made)
    uow,        \* the unit of work: [session, repositories]
    pc,         \* where the caller of the unit of work is
    dbAtEnter,  \* the committed rows when the block in progress was entered
    app,        \* the application: its lifespan and its Redis and S3 clients
    reqs,       \* the requests served concurrently, each with its own session
    last        \* the last operation: its name, inputs, session calls, outcome

vars == <<db, seq, sess, made, uow, pc, dbAtEnter, app, reqs, last>>

\* No request is being served concurrently with the caller the other
\* variables describe.
NoRequests == <<>>

\* The process before its lifespan starts: the shared RedisClient and
\* S3Client instances with their class attributes, _pool, _client and
\* _resource, all None (FALSE: None, TRUE: an object).  connected is
\* no attribute of the program: it records that the last connect() to do
\* anything completed and no disconnect() followed.
NewApplication ==
    [phase |-> "created",
     redis |-> [pool |-> FALSE, client |-> FALSE, connected |-> FALSE],
     s3 |-> [client |-> FALSE, resource |-> FALSE, connected |-> FALSE]]

Ctx == [db |-> db, seq |-> seq, s |-> sess, calls |-> <<>>]

The(S) == CHOOSE x \in S : TRUE

----------------------------------------------------------------------------
(* SQLAlchemyRepository (app/data/repositories/base.py): every method      *)
(* takes the session; cls is the repository's model_class.                 *)

SQLAlchemyRepository_get_by_id(c, cls, id) == SessionGet(c, cls)

SQLAlchemyRepository_get_all(c, cls) == SessionExecute(c, cls)

\* Mutant of SQLAlchemyRepository_create: the flush (and with it the
\* refresh) is left out, so the entity stays pending.
SQLAlchemyRepository_create_NoFlush(c, cls, entity) == SessionAdd(c, cls, entity)

SQLAlchemyRepository_create(c, cls, entity) ==
    LET c1 == SessionAdd(c, cls, entity)
        c2 == SessionFlush(c1)
    IN SessionRefresh(c2, <<cls, c.seq[cls]>>)

\* merge copies the entity's attributes onto the session's object with the
\* same primary key.
SQLAlchemyRepository_update(c, cls, entity) ==
    LET k == <<cls, entity.id>>
        c1 == [Log(c, "merge") EXCEPT !.s.dirty = Put(@, k, entity)]
        c2 == SessionFlush(c1)
    IN SessionRefresh(c2, k)

\* Mutant of SQLAlchemyRepository_delete: the removal is not staged.
SQLAlchemyRepository_delete_Unstaged(c, cls, id) ==
    SQLAlchemyRepository_get_by_id(c, cls, id)

SQLAlchemyRepository_delete(c, cls, id) ==
    LET c1 == SQLAlchemyRepository_get_by_id(c, cls, id)
        entity == Lookup(c1, <<cls, id>>)
    IN IF entity # {}
       THEN SessionFlush(SessionDelete(c1, <<cls, id>>))
       ELSE c1

\* delete's return value
SQLAlchemyRepository_deleted(c, cls, id) == Lookup(c, <<cls, id>>) # {}

SQLAlchemyRepository_exists(c, cls, id) == <<cls, id>> \in DOMAIN View(c)

\* exists, find_by_specification and count_by_specification each execute one
\* SELECT, get_paginated_with_filters two.
SQLAlchemyRepository_query(c, cls, method) ==
    IF method = "get_paginated_with_filters"
    THEN SessionExecute(SessionExecute(c, cls), cls)
    ELSE SessionExecute(c, cls)

----------------------------------------------------------------------------
(* Repository (app/repositories/base.py): bound to one session.            *)

\* self.model(**obj_in.model_dump()): every field of the schema is set.
ModelFromCreate(cls, obj_in) ==
    IF cls = "Item"
    THEN [title |-> obj_in.title, description |-> obj_in.description,
          is_active |-> {obj_in.is_active}]
    ELSE [none |-> {}]

Repository_get(c, cls, id) == SessionGet(c, cls)

Repository_get_multi(c, cls) == SessionExecute(c, cls)

\* Mutant of Repository_create: the repository commits what it added.
Repository_create_Commits(c, cls, obj_in) ==
    SessionCommit(SessionAdd(c, cls, ModelFromCreate(cls, obj_in)))

Repository_create(c, cls, obj_in) ==
    SessionFlush(SessionAdd(c, cls, ModelFromCreate(cls, obj_in)))

\* update_data: of a schema, model_dump(exclude_unset=True,
\* exclude_none=True); of a dict, its items whose value is not None; then
\* the loop keeps the fields db_obj has as attributes.  UserUpdate has no
\* fields.
UpdateData(cls, obj_in) ==
    IF cls = "Item"
    THEN SelectSeq(<<"title", "description", "is_active", "id">>,
                   LAMBDA f : f \in DOMAIN obj_in /\ obj_in[f] # {})
    ELSE <<>>

\* setattr(db_obj, field, value)
SetField(row, f, obj_in) ==
    IF f = "title" THEN [row EXCEPT !.title = The(obj_in.title)]
    ELSE IF f = "description" THEN [row EXCEPT !.description = obj_in.description]
    ELSE IF f = "is_active" THEN [row EXCEPT !.is_active = The(obj_in.is_active)]
    ELSE [row EXCEPT !.id = The(obj_in.id)]

RECURSIVE SetFields(_, _, _, _)
SetFields(c, k, fields, obj_in) ==
    IF fields = <<>> THEN c
    ELSE SetFields(SetAttr(c, k, SetField(The(Lookup(c, k)), Head(fields), obj_in)),
                   k, Tail(fields), obj_in)

Repository_update(c, k, obj_in) ==
    LET c1 == SetFields(c, k, UpdateData(k[1], obj_in), obj_in)
    IN SessionFlush(SessionAddPersistent(c1))

Repository_delete(c, cls, id) ==
    LET c1 == Repository_get(c, cls, id)
        obj == Lookup(c1, <<cls, id>>)
    IN IF obj # {}
       THEN SessionFlush(SessionDelete(c1, <<cls, id>>))
       ELSE c1

\* Mutant of ItemRepository_get_by_title: the query finds nothing.
ItemRepository_get_by_title_Blind(c, title) == {}

\* delete's return value: the object get found, or None.
Repository_deleted(c, cls, id) == Lookup(c, <<cls, id>>)

\* ItemRepository.get_by_title: the first row with that title, if any.
ItemRepository_get_by_title(c, title) ==
    LET found == {k \in DOMAIN View(c) : k[1] = "Item" /\ View(c)[k].title = title}
    IN IF found = {} THEN {}
       ELSE {View(c)[CHOOSE k \in found : \A j \in found : k[2] <= j[2]]}

----------------------------------------------------------------------------
(* SQLAlchemyUnitOfWork (app/data/unit_of_work.py).  uow.session is the    *)
(* handle of its session, 0 for None; uow.repositories is its cache        *)
(* _repositories, a map from model class to repository instance; an        *)
(* instance is identified by its rank among the repositories this unit of  *)
(* work has constructed, uow.built counting them.                          *)

NoSession == 0

\* __init__
NewUnitOfWork == [session |-> NoSession, repositories |-> EmptyTable, built |-> 0]

\* Mutant of UowCommit: the commit is forgotten.
UowCommit_Skipped(c, u, ok) == c

\* commit(): if self.session: await self.session.commit()
UowCommit(c, u, ok) ==
    IF u.session # NoSession
    THEN IF ok THEN SessionCommit(c) ELSE SessionCommitFailed(c)
    ELSE c

\* Mutant of UowRollback: the exit's branches swapped, a commit where the
\* rollback belongs.
UowRollback_Commits(c, u, ok) == UowCommit(c, u, ok)

\* rollback(): if self.session: await self.session.rollback()
UowRollback(c, u, ok) ==
    IF u.session # NoSession
    THEN IF ok THEN SessionRollback(c) ELSE SessionRollbackFailed(c)
    ELSE c

\* The commit or rollback raised: the session call was made and failed.
Raised(u, ok) == u.session # NoSession /\ ~ok

\* Mutant of AexitReturn: __aexit__ returns True.
AexitReturn_True(exc) == TRUE

\* What __aexit__ returns when it returns: it has no return statement, so
\* None, which does not suppress the exception of the block.
AexitReturn(exc) == FALSE

\* __aexit__(exc_type, ...).  exc: the block raised.  ok: the store performs
\* the commit or rollback.  When commit or rollback raises, the statements
\* after it are not executed.
Aexit(c, u, exc, ok) ==
    LET c1 == IF exc THEN UowRollback(c, u, ok) ELSE UowCommit(c, u, ok)
    IN IF Raised(u, ok)
       THEN [c |-> c1, uow |-> u,
             raised |-> IF exc THEN "RollbackError" ELSE "CommitError",
             suppress |-> FALSE]
       ELSE [c |-> IF u.session # NoSession THEN SessionClose(c1) ELSE c1,
             uow |-> [u EXCEPT !.session = NoSession, !.repositories = EmptyTable],
             raised |-> "",
             suppress |-> AexitReturn(exc)]

\* What the caller of "async with uow:" observes: the error __aexit__
\* raised, else the error of the block unless __aexit__ returned true.
Observed(exc, r) ==
    IF r.raised # "" THEN r.raised
    ELSE IF exc /\ ~r.suppress THEN "BlockError"
    ELSE ""

\* Mutant of UowRepository: a new repository is constructed on every call.
UowRepository_Uncached(u, cls) ==
    [u EXCEPT !.repositories = Put(@, cls, u.built + 1), !.built = @ + 1]

\* repository(model_class): the unit of work after the call.
UowRepository(u, cls) ==
    IF cls \notin DOMAIN u.repositories
    THEN [u EXCEPT !.repositories = Put(@, cls, u.built + 1), !.built = @ + 1]
    ELSE u

\* repository(model_class): the instance returned,
\* self._repositories[model_class] after the call.
UowRepositoryReturn(u, cls) == UowRepository(u, cls).repositories[cls]

----------------------------------------------------------------------------
(* Inputs of the unit-of-work specification.  A block obtains its          *)
(* repository with uow.repository(model_class) and passes uow.session to   *)
(* each call, as the class's usage note shows.                             *)

\* New entities a caller constructs: an Item may leave is_active unset.
NewEntities(cls) ==
    IF cls = "Item"
    THEN {[title |-> "Alpha", description |-> {}, is_active |-> a] : a \in {{}, {FALSE}}}
    ELSE {[none |-> {}]}

\* Changed copies of a stored entity that a caller passes to update.
Changed(cls, row) ==
    IF cls = "Item"
    THEN {[row EXCEPT !.is_active = ~@]}
    ELSE {row}

Ids(cls) == 1..MaxIdOf(cls)

\* The model class of the repository calls made in a block.
UowClasses == {"Item"}

ReadMethods ==
    {"get_all", "exists", "find_by_specification", "count_by_specification",
     "get_paginated_with_filters"}

\* The status of a call that raised no HTTPException.
NoError == 0

\* The record of the last operation: its name, the calls it made on the
\* session, what it returned (ret) and was given (arg); for the exit of a
\* block, whether the block raised (exc), whether the store performed the
\* commit or rollback (ok), the error the caller observes and the number of
\* rows the transaction had staged; for a service method, the status code of
\* the HTTPException it raised (status).
Op(name, c, ret) ==
    [op |-> name, calls |-> c.calls, ret |-> ret, arg |-> {}, exc |-> FALSE,
     ok |-> TRUE, observed |-> "", staged |-> 0, status |-> NoError]

Staged(c) == Cardinality(DOMAIN c.s.writes \cup c.s.gone)

Init ==
    /\ db = EmptyTable
    /\ seq = [cls \in Classes |-> 1]
    /\ sess = EmptySession
    /\ made = 0
    /\ uow = NewUnitOfWork
    /\ pc = "idle"
    /\ dbAtEnter = EmptyTable
    /\ app = NewApplication
    /\ reqs = NoRequests
    /\ last = Op("init", Ctx, {})

\* The context a handler leaves becomes the state.
Store(c) ==
    /\ db' = c.db
    /\ seq' = c.seq
    /\ sess' = c.s

InBlock == pc = "active" /\ uow.session # NoSession

\* Whether the store performs a commit or rollback; without a session none
\* is issued, and nothing can fail.
Outcomes == IF uow.session = NoSession THEN {TRUE} ELSE BOOLEAN

\* __aenter__: self.session = self.session_factory()
Enter ==
    /\ pc \in {"idle", "exited"}
    /\ made < MaxSessions
    /\ made' = made + 1
    /\ uow' = [uow EXCEPT !.session = made + 1]
    /\ sess' = EmptySession
    /\ pc' = "active"
    /\ dbAtEnter' = db
    /\ last' = Op("enter", Ctx, {})
    /\ UNCHANGED <<db, seq, app, reqs>>

\* The block ends, normally or by raising, and __aexit__ runs.
Exit ==
    /\ pc = "active"
    /\ \E exc \in BOOLEAN, ok \in BOOLEAN :
        LET r == Aexit(Ctx, uow, exc, ok)
        IN /\ Store(r.c)
           /\ uow' = r.uow
           /\ last' = [Op("exit", r.c, {}) EXCEPT !.exc = exc, !.ok = ok,
                           !.observed = Observed(exc, r), !.staged = Staged(Ctx)]
    /\ pc' = "exited"
    /\ dbAtEnter' = EmptyTable
    /\ UNCHANGED <<made, app, reqs>>

\* uow.commit() called by the caller.
Commit ==
    /\ \E ok \in Outcomes :
        LET c == UowCommit(Ctx, uow, ok)
        IN /\ Store(c)
           /\ last' = [Op("commit", c, {}) EXCEPT !.ok = ok]
    /\ UNCHANGED <<made, uow, pc, dbAtEnter, app, reqs>>

\* uow.rollback() called by the caller.
Rollback ==
    /\ \E ok \in Outcomes :
        LET c == UowRollback(Ctx, uow, ok)
        IN /\ Store(c)
           /\ last' = [Op("rollback", c, {}) EXCEPT !.ok = ok]
    /\ UNCHANGED <<made, uow, pc, dbAtEnter, app, reqs>>

\* uow.repository(model_class)
DoGetRepository(cls) ==
    /\ uow' = UowRepository(uow, cls)
    /\ last' = [Op("repository", Ctx, {UowRepositoryReturn(uow, cls)})
                    EXCEPT !.arg = {cls}]

GetRepository ==
    /\ \E cls \in UowClasses : DoGetRepository(cls)
    /\ UNCHANGED <<db, seq, sess, made, pc, dbAtEnter, app, reqs>>

\* The repository calls themselves, on the session in use; each unit-of-work
\* action below is one of them made inside a block.
DoGetById(cls) ==
    \E id \in Ids(cls) :
        LET c == SQLAlchemyRepository_get_by_id(Ctx, cls, id)
        IN /\ Store(c)
           /\ last' = Op("get_by_id", c, {})

DoQuery(cls) ==
    \E m \in ReadMethods :
        LET c == IF m = "get_all" THEN SQLAlchemyRepository_get_all(Ctx, cls)
                 ELSE SQLAlchemyRepository_query(Ctx, cls, m)
        IN /\ Store(c)
           /\ last' = Op("query", c, {})

DoCreate(cls) ==
    /\ seq[cls] <= MaxIdOf(cls)
    /\ \E entity \in NewEntities(cls) :
        LET c == SQLAlchemyRepository_create(Ctx, cls, entity)
        IN /\ Store(c)
           /\ last' = [Op("create", c, Lookup(c, <<cls, seq[cls]>>))
                           EXCEPT !.arg = {entity}]

DoUpdate(cls) ==
    \E k \in {j \in DOMAIN View(Ctx) : j[1] = cls} :
        \E entity \in Changed(cls, View(Ctx)[k]) :
            LET c == SQLAlchemyRepository_update(Ctx, cls, entity)
            IN /\ Store(c)
               /\ last' = Op("update", c, Lookup(c, k))

DoDelete(cls) ==
    \E id \in Ids(cls) :
        LET c == SQLAlchemyRepository_delete(Ctx, cls, id)
        IN /\ Store(c)
           /\ last' = [Op("delete", c, {SQLAlchemyRepository_deleted(Ctx, cls, id)})
                           EXCEPT !.arg = {id}]

SqlaGetById ==
    /\ InBlock
    /\ \E cls \in UowClasses : DoGetById(cls) /\ uow' = UowRepository(uow, cls)
    /\ UNCHANGED <<made, pc, dbAtEnter, app, reqs>>

SqlaCreate ==
    /\ InBlock
    /\ \E cls \in UowClasses : DoCreate(cls) /\ uow' = UowRepository(uow, cls)
    /\ UNCHANGED <<made, pc, dbAtEnter, app, reqs>>

SqlaUpdate ==
    /\ InBlock
    /\ \E cls \in UowClasses : DoUpdate(cls) /\ uow' = UowRepository(uow, cls)
    /\ UNCHANGED <<made, pc, dbAtEnter, app, reqs>>

SqlaDelete ==
    /\ InBlock
    /\ \E cls \in UowClasses : DoDelete(cls) /\ uow' = UowRepository(uow, cls)
    /\ UNCHANGED <<made, pc, dbAtEnter, app, reqs>>

Next ==
    \/ Enter
    \/ Exit
    \/ Commit
    \/ Rollback
    \/ GetRepository
    \/ SqlaGetById
    \/ SqlaCreate
    \/ SqlaUpdate
    \/ SqlaDelete

Spec == Init /\ [][Next]_vars

----------------------------------------------------------------------------
(* Properties of the unit of work *)

Count(calls, call) == Cardinality({i \in DOMAIN calls : calls[i] = call})

\* C1 (as stated): when the block raises, the committed store after exit is
\* the committed store at enter; when the block exits normally, everything
\* the transaction has staged is committed by the exit.
C1_Original ==
    [][last'.op = "exit" =>
          IF last'.exc THEN db' = dbAtEnter ELSE db' = View(Ctx)]_vars

\* C1 (amended): an exit whose block raised, and an exit whose commit the
\* store refuses, leave the committed store exactly as it was when the exit
\* began, so nothing staged since the last explicit commit becomes visible;
\* an exit whose block ended normally and whose commit succeeds makes
\* everything staged since the last explicit commit or rollback visible in
\* one step.
C1_ExitAtomic ==
    [][last'.op = "exit" =>
          IF last'.exc \/ ~last'.ok THEN db' = db ELSE db' = View(Ctx)]_vars

\* A block that had staged rows raised after an earlier block had committed.
C1_Witness ==
    /\ last.op = "exit" /\ last.exc /\ last.staged > 0
    /\ db # EmptyTable

\* C2: the exit of an entered unit of work issues exactly one of commit and
\* rollback on the session, commit when the block did not raise and rollback
\* when it did; no other operation than the caller's own uow.commit() and
\* uow.rollback() issues either.
C2_ExitIssuesOne ==
    /\ last.op = "exit" =>
          /\ Count(last.calls, "commit") = (IF last.exc THEN 0 ELSE 1)
          /\ Count(last.calls, "rollback") = (IF last.exc THEN 1 ELSE 0)
    /\ last.op \notin {"exit", "commit", "rollback"} =>
          /\ Count(last.calls, "commit") = 0
          /\ Count(last.calls, "rollback") = 0

\* A block with staged rows ended normally and the exit committed them.
C2_Witness ==
    last.op = "exit" /\ ~last.exc /\ last.ok /\ last.staged > 0

\* C3 (as stated): after every exit, also one whose commit or rollback
\* failed, the session has been closed, the session handle is None and the
\* repository cache is empty.
C3_Cleanup ==
    last.op = "exit" =>
        /\ Count(last.calls, "close") = 1
        /\ uow.session = NoSession
        /\ uow.repositories = EmptyTable

\* C4: the exit never swallows an error: when the block raised and the
\* rollback succeeded the caller observes the block's error, and when the
\* block ended normally and the commit failed the caller observes the
\* commit's error.
C4_NoSwallow ==
    last.op = "exit" =>
        /\ (last.exc /\ last.ok) => last.observed = "BlockError"
        /\ (~last.exc /\ ~last.ok) => last.observed = "CommitError"

\* The block raised, the rollback succeeded and the caller sees the error.
C4_Witness ==
    last.op = "exit" /\ last.exc /\ last.ok /\ last.observed = "BlockError"

\* C6: right after create(E) in a unit of work the returned entity has a
\* generated identity and the fields it was created with, get_by_id and
\* exists of the same session find it, and it is not among the committed
\* rows another session reads; rows appear among the committed rows only in
\* a step that commits (uow.commit() or the exit).
C6_CreateVisible ==
    [][/\ last'.op = "create" =>
            /\ last'.ret # {}
            /\ \A e \in last'.ret : \A a \in last'.arg :
                  /\ e.id >= 1
                  /\ e.title = a.title /\ e.description = a.description
                  /\ a.is_active # {} => e.is_active \in a.is_active
                  /\ Lookup(Ctx, <<"Item", e.id>>)' = {e}
                  /\ SQLAlchemyRepository_exists(Ctx, "Item", e.id)'
                  /\ <<"Item", e.id>> \notin DOMAIN db'
       /\ ~(DOMAIN db' \subseteq DOMAIN db) => last'.op \in {"commit", "exit"}]_vars

\* An entity created with is_active unset is staged and not yet committed.
C6_Witness ==
    /\ last.op = "create" /\ last.ret # {}
    /\ \E a \in last.arg : a.is_active = {}
    /\ \E e \in last.ret : <<"Item", e.id>> \in DOMAIN View(Ctx) \ DOMAIN db

----------------------------------------------------------------------------
(* The repositories on a session their caller manages: the session is      *)
(* passed to each SQLAlchemyRepository method, and a Repository is bound   *)
(* to the session given to its constructor.  The caller alone commits or   *)
(* rolls back.                                                             *)

\* ItemCreate / UserCreate objects handed to Repository.create.
CreateSchemas(cls) ==
    IF cls = "Item"
    THEN {[title |-> "Alpha", description |-> {}, is_active |-> a] : a \in BOOLEAN}
    ELSE {[none |-> {}]}

\* ItemUpdate / UserUpdate objects handed to Repository.update; {} is a field
\* that is unset or None.
UpdateSchemas(cls) ==
    IF cls = "Item"
    THEN {[title |-> t, description |-> {}, is_active |-> a] :
            t \in {{}, {"Alpha"}}, a \in Opt(BOOLEAN)}
    ELSE {[none |-> {}]}

\* The rows of cls this session sees.
Keys(c, cls) == {k \in DOMAIN View(c) : k[1] = cls}

RepositoryReads == {"get_multi", "get_by_title", "get_active_items", "get_by_owner"}

DoRepositoryGet(cls) ==
    \E id \in Ids(cls) :
        LET c == Repository_get(Ctx, cls, id)
        IN /\ Store(c)
           /\ last' = Op("Repository.get", c, {})

\* get_multi and the custom queries of ItemRepository: one SELECT each.
DoRepositoryRead(cls) ==
    \E m \in RepositoryReads :
        LET c == Repository_get_multi(Ctx, cls)
        IN /\ Store(c)
           /\ last' = Op("Repository.read", c, {})

DoRepositoryCreate(cls) ==
    /\ seq[cls] <= MaxIdOf(cls)
    /\ \E obj_in \in CreateSchemas(cls) :
        LET c == Repository_create(Ctx, cls, obj_in)
        IN /\ Store(c)
           /\ last' = Op("Repository.create", c, {})

DoRepositoryUpdate(cls) ==
    \E k \in Keys(Ctx, cls) :
        \E obj_in \in UpdateSchemas(cls) :
            LET c == Repository_update(Ctx, k, obj_in)
            IN /\ Store(c)
               /\ last' = Op("Repository.update", c, {})

DoRepositoryDelete(cls) ==
    \E id \in Ids(cls) :
        LET c == Repository_delete(Ctx, cls, id)
        IN /\ Store(c)
           /\ last' = [Op("Repository.delete", c, Repository_deleted(Ctx, cls, id))
                           EXCEPT !.arg = {id}]

DoRepositoryRefresh(cls) ==
    \E k \in Keys(Ctx, cls) :
        LET c == SessionRefresh(Ctx, k)
        IN /\ Store(c)
           /\ last' = Op("Repository.refresh", c, {})

\* The model class the repositories are made for.
RepoClasses == {"Item"}

\* The variables of the unit of work, of the application and of the
\* concurrent requests, which these calls do not touch.
uowVars == <<made, uow, pc, dbAtEnter, app, reqs>>

RepoSqlaGetById == (\E cls \in RepoClasses : DoGetById(cls)) /\ UNCHANGED uowVars

RepoSqlaQuery == (\E cls \in RepoClasses : DoQuery(cls)) /\ UNCHANGED uowVars

RepoSqlaCreate == (\E cls \in RepoClasses : DoCreate(cls)) /\ UNCHANGED uowVars

RepoSqlaUpdate == (\E cls \in RepoClasses : DoUpdate(cls)) /\ UNCHANGED uowVars

RepoSqlaDelete == (\E cls \in RepoClasses : DoDelete(cls)) /\ UNCHANGED uowVars

RepoGet == (\E cls \in RepoClasses : DoRepositoryGet(cls)) /\ UNCHANGED uowVars

RepoRead == (\E cls \in RepoClasses : DoRepositoryRead(cls)) /\ UNCHANGED uowVars

RepoCreate == (\E cls \in RepoClasses : DoRepositoryCreate(cls)) /\ UNCHANGED uowVars

RepoUpdate == (\E cls \in RepoClasses : DoRepositoryUpdate(cls)) /\ UNCHANGED uowVars

RepoDelete == (\E cls \in RepoClasses : DoRepositoryDelete(cls)) /\ UNCHANGED uowVars

RepoRefresh == (\E cls \in RepoClasses : DoRepositoryRefresh(cls)) /\ UNCHANGED uowVars

\* The committed rows whose removal the transaction has staged: a commit
\* removes them for good, a rollback keeps them.  A commit or rollback
\* records them as what it returned.
Removals(c) == c.s.gone \cup (c.s.deleted \cap DOMAIN c.db)

\* The caller of the repositories ends its transaction.
CallerCommit ==
    /\ \E ok \in BOOLEAN :
        LET c == IF ok THEN SessionCommit(Ctx) ELSE SessionCommitFailed(Ctx)
        IN /\ Store(c)
           /\ last' = [Op("commit", c, IF ok THEN Removals(Ctx) ELSE {})
                           EXCEPT !.ok = ok]
    /\ UNCHANGED uowVars

CallerRollback ==
    /\ LET c == SessionRollback(Ctx)
       IN /\ Store(c)
          /\ last' = Op("rollback", c, Removals(Ctx))
    /\ UNCHANGED uowVars

NextRepo ==
    \/ RepoSqlaGetById
    \/ RepoSqlaQuery
    \/ RepoSqlaCreate
    \/ RepoSqlaUpdate
    \/ RepoSqlaDelete
    \/ RepoGet
    \/ RepoRead
    \/ RepoCreate
    \/ RepoUpdate
    \/ RepoDelete
    \/ RepoRefresh
    \/ CallerCommit
    \/ CallerRollback

SpecRepo == Init /\ [][NextRepo]_vars

\* The names the repository calls record in last.op.
RepositoryOps ==
    {"get_by_id", "query", "create", "update", "delete",
     "Repository.get", "Repository.read", "Repository.create",
     "Repository.update", "Repository.delete", "Repository.refresh"}

\* C5: no operation of SQLAlchemyRepository or Repository commits or rolls
\* back: the call issues neither on the session, and the committed rows are
\* after the call what they were before it; whatever the call wrote stays
\* inside the caller's transaction.
C5_NoRepositoryCommit ==
    [][last'.op \in RepositoryOps =>
          /\ Count(last'.calls, "commit") = 0
          /\ Count(last'.calls, "rollback") = 0
          /\ db' = db]_vars

\* C5's case: a repository call has written (created, updated or deleted) and
\* its writes are in the transaction only.
C5_Witness ==
    /\ last.op \in {"create", "update", "delete", "Repository.create",
                    "Repository.update", "Repository.delete"}
    /\ Count(last.calls, "flush") = 1
    /\ View(Ctx) # db

----------------------------------------------------------------------------
(* The service layer (app/services): a service is bound to the session of  *)
(* its request (self.db) and reaches the store through its repositories.   *)
(* A method yields its context, the status code of the HTTPException it    *)
(* raised (NoError when it returned) and the entity it returned.           *)

HTTP_400_BAD_REQUEST == 400

HTTP_403_FORBIDDEN == 403

HTTP_404_NOT_FOUND == 404

Result(c, status, ret) == [c |-> c, status |-> status, ret |-> ret]

\* Mutant of BaseService_commit: the commit is left out.
BaseService_commit_Skipped(c) == c

BaseService_commit(c) == SessionCommit(c)

BaseService_refresh(c, k) == SessionRefresh(c, k)

ItemService_get_item(c, item_id) ==
    LET c1 == Repository_get(c, "Item", item_id)
        item == Lookup(c1, <<"Item", item_id>>)
    IN IF item = {}
       THEN Result(c1, HTTP_404_NOT_FOUND, {})
       ELSE Result(c1, NoError, item)

\* get_active_items or get_multi: one SELECT either way.
ItemService_get_items(c, active_only) ==
    Result(Repository_get_multi(c, "Item"), NoError, {})

ItemService_create_item(c, item_data) ==
    LET c1 == SessionExecute(c, "Item")
        existing_item == ItemRepository_get_by_title(c1, item_data.title)
    IN IF existing_item # {}
       THEN Result(c1, HTTP_400_BAD_REQUEST, {})
       ELSE LET k == <<"Item", c1.seq["Item"]>>
                c2 == Repository_create(c1, "Item", item_data)
                c3 == BaseService_commit(c2)
                c4 == BaseService_refresh(c3, k)
            IN Result(c4, NoError, Lookup(c4, k))

\* "if item_data.title and item_data.title != db_item.title": None and the
\* empty string are both false.
TitleChanges(item_data, db_item) ==
    /\ item_data.title # {}
    /\ The(item_data.title) # ""
    /\ The(item_data.title) # db_item.title

ItemService_update_item(c, item_id, item_data) ==
    LET r == ItemService_get_item(c, item_id)
        k == <<"Item", item_id>>
    IN IF r.status # NoError THEN r
       ELSE LET db_item == The(r.ret)
                check == TitleChanges(item_data, db_item)
                c1 == IF check THEN SessionExecute(r.c, "Item") ELSE r.c
                existing == IF check
                            THEN ItemRepository_get_by_title(c1, The(item_data.title))
                            ELSE {}
            IN IF existing # {}
               THEN Result(c1, HTTP_400_BAD_REQUEST, {})
               ELSE LET c2 == Repository_update(c1, k, item_data)
                        c3 == BaseService_commit(c2)
                        c4 == BaseService_refresh(c3, k)
                    IN Result(c4, NoError, Lookup(c4, k))

\* Mutant of ProtectedTitle: the protected title misspelt.
ProtectedTitle_Misspelt == "Default"

\* The title delete_item refuses to delete.
ProtectedTitle == "default"

ItemService_delete_item(c, item_id) ==
    LET r == ItemService_get_item(c, item_id)
    IN IF r.status # NoError THEN r
       ELSE IF The(r.ret).title = ProtectedTitle
       THEN Result(r.c, HTTP_403_FORBIDDEN, {})
       ELSE LET c1 == Repository_delete(r.c, "Item", item_id)
                c2 == BaseService_commit(c1)
            IN Result(c2, NoError, r.ret)

\* Mutant of ItemService_publish_item: the check that the item is inactive
\* is left out.
ItemService_publish_item_Unchecked(c, item_id) ==
    LET r == ItemService_get_item(c, item_id)
        k == <<"Item", item_id>>
    IN IF r.status # NoError THEN r
       ELSE LET c1 == SetAttr(r.c, k, [The(r.ret) EXCEPT !.is_active = TRUE])
                c2 == BaseService_commit(c1)
                c3 == BaseService_refresh(c2, k)
            IN Result(c3, NoError, Lookup(c3, k))

\* Mutant of ItemService_publish_item: the item is marked active before the
\* check that it is inactive.
ItemService_publish_item_SetsFirst(c, item_id) ==
    LET r == ItemService_get_item(c, item_id)
        k == <<"Item", item_id>>
    IN IF r.status # NoError THEN r
       ELSE LET c1 == SetAttr(r.c, k, [The(r.ret) EXCEPT !.is_active = TRUE])
            IN IF The(r.ret).is_active
               THEN Result(c1, HTTP_400_BAD_REQUEST, {})
               ELSE LET c2 == BaseService_commit(c1)
                        c3 == BaseService_refresh(c2, k)
                    IN Result(c3, NoError, Lookup(c3, k))

ItemService_publish_item(c, item_id) ==
    LET r == ItemService_get_item(c, item_id)
        k == <<"Item", item_id>>
    IN IF r.status # NoError THEN r
       ELSE IF The(r.ret).is_active
       THEN Result(r.c, HTTP_400_BAD_REQUEST, {})
       ELSE LET c1 == SetAttr(r.c, k, [The(r.ret) EXCEPT !.is_active = TRUE])
                c2 == BaseService_commit(c1)
                c3 == BaseService_refresh(c2, k)
            IN Result(c3, NoError, Lookup(c3, k))

\* The items get_by_owner's SELECT matches: owner_id == owner_id.
OwnedBy(c, owner_id) ==
    {k \in Keys(c, "Item") : View(c)[k].owner_id = {owner_id}}

\* ItemRepository.get_by_owner: offset(skip).limit(limit) of the matching
\* rows, which the store returns in the order ord.
ItemRepository_get_by_owner(c, owner_id, skip, limit, ord) ==
    [i \in 1..(IF Len(ord) - skip < limit
               THEN (IF Len(ord) - skip < 0 THEN 0 ELSE Len(ord) - skip)
               ELSE limit) |-> ord[skip + i]]

\* Mutant of ItemService_get_items_by_owner: the items are queried without
\* the user having been looked up.
ItemService_get_items_by_owner_Unvalidated(c, owner_id, skip, limit, ord) ==
    Result(SessionExecute(c, "Item"), NoError,
           {ItemRepository_get_by_owner(c, owner_id, skip, limit, ord)})

ItemService_get_items_by_owner(c, owner_id, skip, limit, ord) ==
    LET c1 == Repository_get(c, "User", owner_id)
        user == Lookup(c1, <<"User", owner_id>>)
    IN IF user = {}
       THEN Result(c1, HTTP_404_NOT_FOUND, {})
       ELSE Result(SessionExecute(c1, "Item"), NoError,
                   {ItemRepository_get_by_owner(c1, owner_id, skip, limit, ord)})

UserService_get_user(c, user_id) ==
    LET c1 == Repository_get(c, "User", user_id)
        user == Lookup(c1, <<"User", user_id>>)
    IN IF user = {}
       THEN Result(c1, HTTP_404_NOT_FOUND, {})
       ELSE Result(c1, NoError, user)

UserService_get_users(c) == Result(Repository_get_multi(c, "User"), NoError, {})

UserService_create_user(c, user_data) ==
    LET k == <<"User", c.seq["User"]>>
        c1 == Repository_create(c, "User", user_data)
        c2 == BaseService_commit(c1)
        c3 == BaseService_refresh(c2, k)
    IN Result(c3, NoError, Lookup(c3, k))

UserService_update_user(c, user_id, user_data) ==
    LET r == UserService_get_user(c, user_id)
        k == <<"User", user_id>>
    IN IF r.status # NoError THEN r
       ELSE LET c1 == Repository_update(r.c, k, user_data)
                c2 == BaseService_commit(c1)
                c3 == BaseService_refresh(c2, k)
            IN Result(c3, NoError, Lookup(c3, k))

----------------------------------------------------------------------------
(* Requests to the services.  Each request runs one service method on the  *)
(* session of that request; the store performs the commits.                *)

\* get_items_by_owner's default limit.
OwnerDefaultLimit == 100

\* ItemCreate bodies of requests.
ItemCreates ==
    {[title |-> t, description |-> {}, is_active |-> a] : t \in Titles, a \in BOOLEAN}

\* ItemUpdate bodies of requests; {} is a field that is unset or null.
ItemUpdates ==
    {[title |-> t, description |-> {}, is_active |-> a] :
        t \in Opt(Titles), a \in Opt(BOOLEAN)}

\* A service call's outcome becomes the state; the request before it has
\* ended, so the session starts with nothing staged.
Served(name, r, arg) ==
    /\ Store(r.c)
    /\ last' = [Op(name, r.c, r.ret) EXCEPT !.status = r.status, !.arg = arg]
    /\ UNCHANGED uowVars

GetItem ==
    \E item_id \in Ids("Item") :
        Served("get_item", ItemService_get_item(Ctx, item_id), {})

GetItems ==
    \E active_only \in BOOLEAN :
        Served("get_items", ItemService_get_items(Ctx, active_only), {})

CreateItem ==
    \E item_data \in ItemCreates :
        LET r == ItemService_create_item(Ctx, item_data)
        IN /\ r.c.seq["Item"] <= MaxItemId + 1
           /\ Served("create_item", r, {item_data.title})

UpdateItem ==
    \E item_id \in Ids("Item") : \E item_data \in ItemUpdates :
        Served("update_item", ItemService_update_item(Ctx, item_id, item_data), {})

DeleteItem ==
    \E item_id \in Ids("Item") :
        Served("delete_item", ItemService_delete_item(Ctx, item_id), {item_id})

PublishItem ==
    \E item_id \in Ids("Item") :
        Served("publish_item", ItemService_publish_item(Ctx, item_id), {item_id})

\* get_items_by_owner(owner_id) with the default skip and limit; the store
\* returns the owner's items in some order.
GetItemsByOwner ==
    \E owner_id \in Ids("User") :
        \E ord \in {o \in [1..Cardinality(OwnedBy(Ctx, owner_id)) -> OwnedBy(Ctx, owner_id)] :
                       \A i, j \in DOMAIN o : o[i] = o[j] => i = j} :
            Served("get_items_by_owner",
                   ItemService_get_items_by_owner(Ctx, owner_id, 0, OwnerDefaultLimit, ord),
                   {owner_id})

GetUser ==
    \E user_id \in Ids("User") :
        Served("get_user", UserService_get_user(Ctx, user_id), {})

GetUsers == Served("get_users", UserService_get_users(Ctx), {})

CreateUser ==
    /\ seq["User"] <= MaxUserId
    /\ Served("create_user", UserService_create_user(Ctx, [none |-> {}]), {})

UpdateUser ==
    \E user_id \in Ids("User") :
        Served("update_user", UserService_update_user(Ctx, user_id, [none |-> {}]), {})

NextSvc ==
    \/ GetItem
    \/ GetItems
    \/ CreateItem
    \/ UpdateItem
    \/ DeleteItem
    \/ PublishItem
    \/ GetItemsByOwner
    \/ GetUser
    \/ GetUsers
    \/ CreateUser
    \/ UpdateUser

SpecSvc == Init /\ [][NextSvc]_vars

MutatingMethods ==
    {"create_item", "update_item", "delete_item", "publish_item",
     "create_user", "update_user"}

ReadOnlyMethods ==
    {"get_item", "get_items", "get_items_by_owner", "get_user", "get_users"}

BusinessErrors == {HTTP_400_BAD_REQUEST, HTTP_403_FORBIDDEN, HTTP_404_NOT_FOUND}

\* The positions in calls of the session call named call.
Positions(calls, call) == {i \in DOMAIN calls : calls[i] = call}

\* C7: a service call that raises a business error (404, 400, 403) has made
\* only reads on the session: no attribute assignment, no add or delete, no
\* flush, no commit; the session, the store and the key sequences are what
\* they were before the call.
C7_ShortCircuit ==
    [][(last'.op \in MutatingMethods \cup ReadOnlyMethods
          /\ last'.status \in BusinessErrors) =>
          /\ \A i \in DOMAIN last'.calls :
                last'.calls[i] \in {"get Item", "get User", "execute Item"}
          /\ sess' = sess
          /\ db' = db
          /\ seq' = seq]_vars

\* C7's case: update_item has found the item, then found its new title
\* taken, and raised 400 with the store not empty.
C7_Witness ==
    /\ last.op = "update_item"
    /\ last.status = HTTP_400_BAD_REQUEST
    /\ last.calls = <<"get Item", "execute Item">>
    /\ Cardinality(DOMAIN db) = 2

MutationCalls == {"add", "delete", "setattr"}

\* A successful call of a mutating method committed once, after its mutation.
CommitsOnceAfterMutation ==
    /\ Count(last.calls, "commit") = 1
    /\ \E i \in DOMAIN last.calls : \E j \in Positions(last.calls, "commit") :
          last.calls[i] \in MutationCalls /\ i < j

\* The call's last step was a refresh, made after the commit.
RefreshesLast ==
    /\ last.calls # <<>>
    /\ last.calls[Len(last.calls)] = "refresh"
    /\ \A j \in Positions(last.calls, "commit") : j < Len(last.calls)

\* C8 as stated: every mutating service method that succeeds commits exactly
\* once, after its mutation, and then refreshes the entity it returns;
\* read-only methods never commit.
C8_Original ==
    /\ (last.op \in MutatingMethods /\ last.status = NoError) =>
          CommitsOnceAfterMutation /\ RefreshesLast
    /\ last.op \in ReadOnlyMethods => Count(last.calls, "commit") = 0

\* C8, amended: every mutating service method that succeeds commits exactly
\* once, after its mutation (for publish_item an attribute assignment, for
\* the others a repository call); create_item, update_item, publish_item,
\* create_user and update_user then refresh the entity they return, while
\* delete_item returns the deleted entity without any refresh; read-only
\* methods never commit.
C8_CommitOnceThenRefresh ==
    /\ (last.op \in MutatingMethods /\ last.status = NoError) =>
          /\ CommitsOnceAfterMutation
          /\ IF last.op = "delete_item"
             THEN Count(last.calls, "refresh") = 0
             ELSE RefreshesLast /\ Count(last.calls, "refresh") = 1
          /\ (last.op # "publish_item") = (Count(last.calls, "flush") = 1)
    /\ last.op \in ReadOnlyMethods => Count(last.calls, "commit") = 0

\* C8's case: delete_item has deleted an item and committed.
C8_Witness ==
    /\ last.op = "delete_item"
    /\ last.status = NoError
    /\ last.calls = <<"get Item", "get Item", "delete", "flush", "commit">>

\* The items of the committed store that carry title t.
Titled(t) == {k \in DOMAIN db : k[1] = "Item" /\ db[k].title = t}

\* C9: create_item with a title some item already has raises 400, creates
\* no item and leaves every row as it was; with a title no item has it
\* succeeds, and the store gains exactly one item, which has that title.
C9_DuplicateTitle ==
    [][last'.op = "create_item" =>
          LET t == The(last'.arg)
          IN IF Titled(t) # {}
             THEN /\ last'.status = HTTP_400_BAD_REQUEST
                  /\ db' = db
                  /\ seq' = seq
             ELSE /\ last'.status = NoError
                  /\ Cardinality(DOMAIN db' \ DOMAIN db) = 1
                  /\ \A k \in DOMAIN db' \ DOMAIN db :
                        k[1] = "Item" /\ db'[k].title = t /\ last'.ret = {db'[k]}
                  /\ \A k \in DOMAIN db : k \in DOMAIN db' /\ db'[k] = db[k]]_vars

\* C9's case: a second create_item with the title of a stored item was
\* refused.
C9_Witness ==
    /\ last.op = "create_item"
    /\ last.status = HTTP_400_BAD_REQUEST
    /\ Titled(The(last.arg)) # {}

\* C10: delete_item on a stored item titled "default" raises 403 and the
\* store is unchanged, the item still in it; on any other stored item it
\* commits once and the store is the old one without that item.
C10_ProtectedRecord ==
    [][(last'.op = "delete_item" /\ <<"Item", The(last'.arg)>> \in DOMAIN db) =>
          LET k == <<"Item", The(last'.arg)>>
          IN IF db[k].title = "default"
             THEN /\ last'.status = HTTP_403_FORBIDDEN
                  /\ k \in DOMAIN db'
                  /\ db' = db
             ELSE /\ last'.status = NoError
                  /\ Count(last'.calls, "commit") = 1
                  /\ db' = Without(db, {k})]_vars

\* C10's case: delete_item was refused for an item titled "default", which
\* is still stored.
C10_Witness ==
    /\ last.op = "delete_item"
    /\ last.status = HTTP_403_FORBIDDEN
    /\ <<"Item", The(last.arg)>> \in Titled("default")

\* C11: publish_item on a stored item that is inactive succeeds, commits
\* once, and the store is the old one with that item's is_active true and
\* nothing else changed; on a stored item that is active it raises 400 and
\* store and session are unchanged; so a publish_item that follows a
\* successful publish_item of the same item raises 400.
C11_PublishTransition ==
    [][last'.op = "publish_item" =>
          LET k == <<"Item", The(last'.arg)>>
          IN /\ (k \in DOMAIN db /\ ~db[k].is_active) =>
                   /\ last'.status = NoError
                   /\ Count(last'.calls, "commit") = 1
                   /\ db' = Put(db, k, [db[k] EXCEPT !.is_active = TRUE])
                   /\ last'.ret = {db'[k]}
             /\ (k \in DOMAIN db /\ db[k].is_active) =>
                   /\ last'.status = HTTP_400_BAD_REQUEST
                   /\ db' = db
                   /\ sess' = sess
             /\ (last.op = "publish_item" /\ last.status = NoError
                   /\ last.arg = last'.arg) =>
                   last'.status = HTTP_400_BAD_REQUEST]_vars

\* C11's case: an item created inactive was published, and the publish that
\* followed was refused; the item is active.
C11_Witness ==
    /\ last.op = "publish_item"
    /\ last.status = HTTP_400_BAD_REQUEST
    /\ <<"Item", The(last.arg)>> \in DOMAIN db
    /\ db[<<"Item", The(last.arg)>>].is_active

----------------------------------------------------------------------------
(* The specification engine (app/data/repositories/base.py).  A filter is  *)
(* a SQL boolean expression, None when there is none.  A specification is  *)
(* a tree: a leaf carries the filter its to_sqlalchemy_filter returns, the *)
(* composites carry their operands.                                        *)

\* to_sqlalchemy_filter's None.
NoFilter == [op |-> "none"]

\* Column comparisons a leaf specification may return: Item.is_active ==
\* true, Item.owner_id == 1.
LeafFilters ==
    {[op |-> "col", col |-> "is_active", val |-> {TRUE}],
     [op |-> "col", col |-> "owner_id", val |-> {1}]}

Leaf(f) == [kind |-> "leaf", filter |-> f]

\* A specification without a predicate.
NullSpec == Leaf(NoFilter)

LeafSpecs == {Leaf(f) : f \in LeafFilters \cup {NoFilter}}

AndSpecification(left, right) == [kind |-> "and", left |-> left, right |-> right]

OrSpecification(left, right) == [kind |-> "or", left |-> left, right |-> right]

NotSpecification(spec) == [kind |-> "not", spec |-> spec]

\* ISpecification.and_, or_, not_
and_(self, other) == AndSpecification(self, other)

or_(self, other) == OrSpecification(self, other)

not_(self) == NotSpecification(self)

\* sqlalchemy's and_, or_ and ~ build the expression.
SqlAnd(l, r) == [op |-> "and", l |-> l, r |-> r]

SqlOr(l, r) == [op |-> "or", l |-> l, r |-> r]

SqlNot(x) == [op |-> "not", x |-> x]

\* Mutant of AndFilter: a missing side makes the conjunction missing.
AndFilter_NullWins(left_filter, right_filter) ==
    IF left_filter = NoFilter \/ right_filter = NoFilter THEN NoFilter
    ELSE SqlAnd(left_filter, right_filter)

\* AndSpecification.to_sqlalchemy_filter, given its operands' filters.
AndFilter(left_filter, right_filter) ==
    IF left_filter = NoFilter THEN right_filter
    ELSE IF right_filter = NoFilter THEN left_filter
    ELSE SqlAnd(left_filter, right_filter)

\* Mutant of OrFilter: a disjunction with a missing side matches everything.
OrFilter_Collapses(left_filter, right_filter) ==
    IF left_filter = NoFilter \/ right_filter = NoFilter THEN NoFilter
    ELSE SqlOr(left_filter, right_filter)

\* OrSpecification.to_sqlalchemy_filter, given its operands' filters.
OrFilter(left_filter, right_filter) ==
    IF left_filter = NoFilter /\ right_filter = NoFilter THEN NoFilter
    ELSE IF left_filter = NoFilter THEN right_filter
    ELSE IF right_filter = NoFilter THEN left_filter
    ELSE SqlOr(left_filter, right_filter)

\* sqlalchemy's false(): the expression that is false on every row.
SqlFalse == [op |-> "false"]

\* Mutant of NotFilter: the negation of no filter matches nothing.
NotFilter_MatchesNothing(spec_filter) ==
    IF spec_filter = NoFilter THEN SqlFalse
    ELSE SqlNot(spec_filter)

\* NotSpecification.to_sqlalchemy_filter, given its operand's filter.
NotFilter(spec_filter) ==
    IF spec_filter = NoFilter THEN NoFilter
    ELSE SqlNot(spec_filter)

RECURSIVE to_sqlalchemy_filter(_)
to_sqlalchemy_filter(spec) ==
    IF spec.kind = "leaf" THEN spec.filter
    ELSE IF spec.kind = "and"
    THEN AndFilter(to_sqlalchemy_filter(spec.left), to_sqlalchemy_filter(spec.right))
    ELSE IF spec.kind = "or"
    THEN OrFilter(to_sqlalchemy_filter(spec.left), to_sqlalchemy_filter(spec.right))
    ELSE NotFilter(to_sqlalchemy_filter(spec.spec))

\* The value of a column of a row, as a set: {} is NULL.
ColumnValue(row, col) ==
    IF col = "is_active" THEN {row.is_active} ELSE row.owner_id

\* The value of a filter on a row in SQL's three-valued logic.
RECURSIVE Eval(_, _)
Eval(row, f) ==
    IF f.op = "false" THEN "false"
    ELSE IF f.op = "col"
    THEN IF ColumnValue(row, f.col) = {} THEN "null"
         ELSE IF ColumnValue(row, f.col) = f.val THEN "true" ELSE "false"
    ELSE IF f.op = "and"
    THEN LET l == Eval(row, f.l)
             r == Eval(row, f.r)
         IN IF l = "false" \/ r = "false" THEN "false"
            ELSE IF l = "null" \/ r = "null" THEN "null" ELSE "true"
    ELSE IF f.op = "or"
    THEN LET l == Eval(row, f.l)
             r == Eval(row, f.r)
         IN IF l = "true" \/ r = "true" THEN "true"
            ELSE IF l = "null" \/ r = "null" THEN "null" ELSE "false"
    ELSE LET x == Eval(row, f.x)
         IN IF x = "null" THEN "null" ELSE IF x = "true" THEN "false" ELSE "true"

\* The rows of cls a SELECT returns: all of them when no WHERE is applied,
\* else those on which the filter is true.
Select(c, cls, f) ==
    {k \in Keys(c, cls) : f = NoFilter \/ Eval(View(c)[k], f) = "true"}

\* The specification trees with n nodes.
RECURSIVE TreesOfSize(_)
TreesOfSize(n) ==
    IF n = 1 THEN LeafSpecs
    ELSE {NotSpecification(t) : t \in TreesOfSize(n - 1)}
         \cup UNION {{AndSpecification(l, r) : l \in TreesOfSize(i), r \in TreesOfSize(n - 1 - i)}
                        : i \in 1..(n - 2)}
         \cup UNION {{OrSpecification(l, r) : l \in TreesOfSize(i), r \in TreesOfSize(n - 1 - i)}
                        : i \in 1..(n - 2)}

SpecTrees == UNION {TreesOfSize(n) : n \in 1..MaxNodes}

\* The filters of the leaves of a tree.
RECURSIVE Leaves(_)
Leaves(spec) ==
    IF spec.kind = "leaf" THEN {spec.filter}
    ELSE IF spec.kind = "not" THEN Leaves(spec.spec)
    ELSE Leaves(spec.left) \cup Leaves(spec.right)

\* The orders in which a SELECT without ORDER BY may return the rows S: the
\* store promises none, so any.
Orders(S) ==
    {ord \in [1..Cardinality(S) -> S] : \A i, j \in DOMAIN ord : ord[i] = ord[j] => i = j}

\* query.offset(skip).limit(limit) on rows returned in the order ord.
Page(ord, skip, limit) ==
    [i \in 1..(IF Len(ord) - skip < limit
               THEN (IF Len(ord) - skip < 0 THEN 0 ELSE Len(ord) - skip)
               ELSE limit) |-> ord[skip + i]]

Range(q) == {q[i] : i \in DOMAIN q}

\* find_by_specification's default limit.
DefaultLimit == 100

\* find_by_specification: the page, of the rows the store returns in the
\* order ord.
SQLAlchemyRepository_find_by_specification(c, cls, specification, skip, limit, ord) ==
    Page(ord, skip, limit)

\* The rows find_by_specification's SELECT matches.
FindMatches(c, cls, specification) ==
    Select(c, cls, to_sqlalchemy_filter(specification))

\* count_by_specification
SQLAlchemyRepository_count_by_specification(c, cls, specification) ==
    Cardinality(Select(c, cls, to_sqlalchemy_filter(specification)))

----------------------------------------------------------------------------
(* Specifications composed and translated.  A caller builds a specification *)
(* tree, then translates it, composes it further, or queries a store by it. *)

\* A store with one user and two items: an active item the user owns and an
\* inactive item without owner.
SampleStore ==
    LET u == <<"User", 1>>
        a == <<"Item", 1>>
        b == <<"Item", 2>>
    IN [k \in {u, a, b} |->
          IF k = u THEN [id |-> 1]
          ELSE IF k = a
          THEN [id |-> 1, title |-> "Alpha", description |-> {},
                is_active |-> TRUE, owner_id |-> {1}]
          ELSE [id |-> 2, title |-> "default", description |-> {},
                is_active |-> FALSE, owner_id |-> {}]]

InitFilter ==
    /\ db = SampleStore
    /\ seq = [cls \in Classes |-> IF cls = "Item" THEN 3 ELSE 2]
    /\ sess = EmptySession
    /\ made = 0
    /\ uow = NewUnitOfWork
    /\ pc = "idle"
    /\ dbAtEnter = EmptyTable
    /\ app = NewApplication
    /\ reqs = NoRequests
    /\ \E spec \in SpecTrees : last = [Op("init", Ctx, {}) EXCEPT !.arg = {spec}]

\* specification.to_sqlalchemy_filter()
ToFilter ==
    /\ last.op = "init"
    /\ last' = [Op("to_sqlalchemy_filter", Ctx, {to_sqlalchemy_filter(The(last.arg))})
                    EXCEPT !.arg = last.arg]
    /\ UNCHANGED <<db, seq, sess>>
    /\ UNCHANGED uowVars

\* specification.and_(other) or other.and_(specification), then translated.
ComposeAnd ==
    /\ last.op = "init"
    /\ \E other \in LeafSpecs : \E spec \in {and_(The(last.arg), other), and_(other, The(last.arg))} :
          last' = [Op("and_", Ctx, {to_sqlalchemy_filter(spec)}) EXCEPT !.arg = {spec}]
    /\ UNCHANGED <<db, seq, sess>>
    /\ UNCHANGED uowVars

ComposeOr ==
    /\ last.op = "init"
    /\ \E other \in LeafSpecs : \E spec \in {or_(The(last.arg), other), or_(other, The(last.arg))} :
          last' = [Op("or_", Ctx, {to_sqlalchemy_filter(spec)}) EXCEPT !.arg = {spec}]
    /\ UNCHANGED <<db, seq, sess>>
    /\ UNCHANGED uowVars

ComposeNot ==
    /\ last.op = "init"
    /\ LET spec == not_(The(last.arg))
       IN last' = [Op("not_", Ctx, {to_sqlalchemy_filter(spec)}) EXCEPT !.arg = {spec}]
    /\ UNCHANGED <<db, seq, sess>>
    /\ UNCHANGED uowVars

\* find_by_specification(session, specification) with the default skip and
\* limit.
FindByTree ==
    /\ last.op = "init"
    /\ LET spec == The(last.arg)
           c == SessionExecute(Ctx, "Item")
       IN \E ord \in Orders(FindMatches(c, "Item", spec)) :
             /\ Store(c)
             /\ last' = [Op("find_by_specification", c,
                            {SQLAlchemyRepository_find_by_specification(
                                 c, "Item", spec, 0, DefaultLimit, ord)})
                            EXCEPT !.arg = {spec}]
    /\ UNCHANGED uowVars

NextFilter ==
    \/ ToFilter
    \/ ComposeAnd
    \/ ComposeOr
    \/ ComposeNot
    \/ FindByTree

SpecFilter == InitFilter /\ [][NextFilter]_vars

\* The operations that record a translated tree: arg the tree, ret its filter.
Translating == {"to_sqlalchemy_filter", "and_", "or_", "not_"}

\* C13: the filter of AndSpecification(L, R) is None when both operands'
\* filters are None, the filter of the other operand when exactly one is
\* None, and the conjunction of both otherwise; so S.and_(null-spec) and
\* null-spec.and_(S) have the filter of S.
C13_AndComposition ==
    (last.op \in Translating /\ The(last.arg).kind = "and") =>
        LET S == The(last.arg)
            f == The(last.ret)
            l == to_sqlalchemy_filter(S.left)
            r == to_sqlalchemy_filter(S.right)
        IN /\ (l = NoFilter /\ r = NoFilter) => f = NoFilter
           /\ (l = NoFilter /\ r # NoFilter) => f = r
           /\ (l # NoFilter /\ r = NoFilter) => f = l
           /\ (l # NoFilter /\ r # NoFilter) => f = SqlAnd(l, r)
           /\ S.right = NullSpec => f = l
           /\ S.left = NullSpec => f = r

\* C13's case: S.and_(null-spec) was translated for an S with a filter, and
\* the filter is S's.
C13_Witness ==
    /\ last.op = "and_"
    /\ The(last.arg).right = NullSpec
    /\ The(last.ret) # NoFilter
    /\ The(last.ret) = to_sqlalchemy_filter(The(last.arg).left)

\* C14: the filter of OrSpecification(L, R) is None when both operands'
\* filters are None, the filter of the other operand when exactly one is
\* None (not None, which would match everything), and the disjunction of
\* both otherwise.
C14_OrComposition ==
    (last.op \in Translating /\ The(last.arg).kind = "or") =>
        LET S == The(last.arg)
            f == The(last.ret)
            l == to_sqlalchemy_filter(S.left)
            r == to_sqlalchemy_filter(S.right)
        IN /\ (l = NoFilter /\ r = NoFilter) => f = NoFilter
           /\ (l = NoFilter /\ r # NoFilter) => f = r /\ f # NoFilter
           /\ (l # NoFilter /\ r = NoFilter) => f = l /\ f # NoFilter
           /\ (l # NoFilter /\ r # NoFilter) => f = SqlOr(l, r)

\* C14's case: an OR with exactly one operand without a filter was
\* translated.
C14_Witness ==
    /\ last.op \in Translating
    /\ The(last.arg).kind = "or"
    /\ to_sqlalchemy_filter(The(last.arg).left) = NoFilter
    /\ to_sqlalchemy_filter(The(last.arg).right) # NoFilter
    /\ The(last.ret) = to_sqlalchemy_filter(The(last.arg).right)

\* C15: the filter of a tree of AND, OR and NOT is None exactly when the
\* filter of every leaf is None; NOT of a specification without a filter has
\* no filter; and find_by_specification by a tree whose leaves all have no
\* filter returns every entity, as the unfiltered query does.
C15_NullTree ==
    /\ last.op \in Translating =>
          /\ (The(last.ret) = NoFilter) = (Leaves(The(last.arg)) \subseteq {NoFilter})
          /\ (The(last.arg).kind = "not"
                /\ to_sqlalchemy_filter(The(last.arg).spec) = NoFilter) =>
                The(last.ret) = NoFilter
    /\ (last.op = "find_by_specification"
          /\ Leaves(The(last.arg)) \subseteq {NoFilter}) =>
          Range(The(last.ret)) = Keys(Ctx, "Item")

\* C15's case: a query by a nested tree without any predicate (a NOT, AND or
\* OR above another composite) returned both items of the store.
C15_Witness ==
    /\ last.op = "find_by_specification"
    /\ The(last.arg).kind = "not"
    /\ The(last.arg).spec.kind \in {"and", "or"}
    /\ Leaves(The(last.arg)) = {NoFilter}
    /\ Cardinality(Range(The(last.ret))) = 2

----------------------------------------------------------------------------
(* Queries on a store that does not change: get_paginated_with_filters,    *)
(* count_by_specification and the service's get_items_by_owner.            *)

\* The filter get_paginated_with_filters applies to both its queries; {} is
\* the specification left out (None).
PaginatedFilter(specification) ==
    IF specification = {} THEN NoFilter
    ELSE to_sqlalchemy_filter(The(specification))

\* Mutant of SQLAlchemyRepository_get_paginated_with_filters: the count query
\* is left without the filter.
SQLAlchemyRepository_get_paginated_with_filters_CountsAll(c, cls, specification, skip, limit, ord) ==
    [page |-> Page(ord, skip, limit),
     total |-> Cardinality(Keys(c, cls))]

\* get_paginated_with_filters: the page, of the matching rows the store
\* returns in the order ord, and the count of the matching rows.
SQLAlchemyRepository_get_paginated_with_filters(c, cls, specification, skip, limit, ord) ==
    [page |-> Page(ord, skip, limit),
     total |-> Cardinality(Select(c, cls, PaginatedFilter(specification)))]

\* The users a store may hold, and the items: any of the ids, active or
\* not, without owner or owned by user 1 when the store holds that user.
UserTables == SUBSET {<<"User", id>> : id \in Ids("User")}

ItemRows(id, users) ==
    {[id |-> id, title |-> "Alpha", description |-> {}, is_active |-> a, owner_id |-> o] :
        a \in BOOLEAN, o \in {{}} \cup {{u[2]} : u \in users \cap {<<"User", 1>>}}}

Datasets ==
    UNION {UNION {{[k \in users \cup items |->
                      IF k \in users THEN [id |-> k[2]] ELSE row[k]] :
                     row \in [items -> UNION {ItemRows(k[2], users) : k \in items}]}
                  : items \in SUBSET {<<"Item", id>> : id \in Ids("Item")}}
           : users \in UserTables}

\* A dataset's rows carry their own ids.
WellFormed(d) == \A k \in DOMAIN d : d[k].id = k[2]

\* The specifications the queries are made with.
QuerySpecs ==
    {NullSpec,
     Leaf([op |-> "col", col |-> "is_active", val |-> {TRUE}]),
     Leaf([op |-> "col", col |-> "owner_id", val |-> {1}]),
     not_(Leaf([op |-> "col", col |-> "is_active", val |-> {TRUE}])),
     and_(NullSpec, NullSpec)}

\* A caller's query: the specification (left out: {}), the skip of its next
\* page, the limit.
Queries ==
    {[spec |-> sp, skip |-> 0, limit |-> n] :
        sp \in Opt(QuerySpecs), n \in 0..MaxItemId}

InitQuery ==
    /\ db \in {d \in Datasets : WellFormed(d)}
    /\ seq = [cls \in Classes |-> MaxIdOf(cls) + 1]
    /\ sess = EmptySession
    /\ made = 0
    /\ uow = NewUnitOfWork
    /\ pc = "idle"
    /\ dbAtEnter = EmptyTable
    /\ app = NewApplication
    /\ reqs = NoRequests
    /\ \E q \in Queries : last = [Op("init", Ctx, {}) EXCEPT !.arg = {q}]

\* get_paginated_with_filters(session, specification, skip, limit): the first
\* page asked for at any skip, each later one at the skip after the page
\* before it.
GetPaginated ==
    /\ last.op \in {"init", "get_paginated_with_filters"}
    /\ LET q == The(last.arg)
           c == SQLAlchemyRepository_query(Ctx, "Item", "get_paginated_with_filters")
       IN \E skip \in IF last.op = "init" THEN 0..MaxItemId ELSE {q.skip + q.limit} :
          \E ord \in Orders(Select(c, "Item", PaginatedFilter(q.spec))) :
             /\ skip <= MaxItemId + 1
             /\ Store(c)
             /\ last' = [Op("get_paginated_with_filters", c,
                            {SQLAlchemyRepository_get_paginated_with_filters(
                                 c, "Item", q.spec, skip, q.limit, ord)})
                            EXCEPT !.arg = {[q EXCEPT !.skip = skip]}]
    /\ UNCHANGED uowVars

\* count_by_specification(session, specification)
CountBySpecification ==
    /\ last.op = "init"
    /\ The(last.arg).spec # {}
    /\ LET q == The(last.arg)
           c == SQLAlchemyRepository_query(Ctx, "Item", "count_by_specification")
       IN /\ Store(c)
          /\ last' = [Op("count_by_specification", c,
                         {SQLAlchemyRepository_count_by_specification(
                              c, "Item", The(q.spec))})
                         EXCEPT !.arg = last.arg]
    /\ UNCHANGED uowVars

\* The service's get_items_by_owner, asked of the same store.
OwnerItems ==
    /\ last.op = "init"
    /\ GetItemsByOwner

NextQuery ==
    \/ GetPaginated
    \/ CountBySpecification
    \/ OwnerItems

SpecQuery == InitQuery /\ [][NextQuery]_vars

\* C12: get_items_by_owner looks the user up first; when the store holds no
\* user with that id it raises 404 having made no query on items; when it
\* does, the lookup is followed by one query on items, which returns
\* exactly the items whose owner_id is that id.
C12_OwnerValidatedFirst ==
    last.op = "get_items_by_owner" =>
        LET owner_id == The(last.arg)
        IN /\ last.calls # <<>>
           /\ last.calls[1] = "get User"
           /\ IF <<"User", owner_id>> \notin DOMAIN db
              THEN /\ last.status = HTTP_404_NOT_FOUND
                   /\ Count(last.calls, "execute Item") = 0
                   /\ last.ret = {}
              ELSE /\ last.status = NoError
                   /\ last.calls = <<"get User", "execute Item">>
                   /\ Range(The(last.ret)) =
                         {k \in DOMAIN db : k[1] = "Item" /\ db[k].owner_id = {owner_id}}

\* C12's case: the user exists and owns an item, which the query returned
\* while leaving out an item the user does not own.
C12_Witness ==
    /\ last.op = "get_items_by_owner"
    /\ last.status = NoError
    /\ Cardinality(Range(The(last.ret))) = 1
    /\ Cardinality({k \in DOMAIN db : k[1] = "Item"}) = 2

\* The items of the store on which the query's filter is true, worked out
\* from the rows.
Matching(q) ==
    {k \in DOMAIN db :
        /\ k[1] = "Item"
        /\ PaginatedFilter(q.spec) # NoFilter =>
              Eval(db[k], PaginatedFilter(q.spec)) = "true"}

\* C16: on a store that does not change, get_paginated_with_filters returns
\* a page of at most limit entities, all matching the specification, and a
\* total not below the page's length; and the page at skip + limit has no
\* entity in common with the page at skip.
C16_PaginationConsistent ==
    [][last'.op = "get_paginated_with_filters" =>
          LET q == The(last'.arg)
              r == The(last'.ret)
          IN /\ Len(r.page) <= q.limit
             /\ Range(r.page) \subseteq Matching(q)
             /\ r.total >= Len(r.page)
             /\ (last.op = "get_paginated_with_filters"
                   /\ q.skip = The(last.arg).skip + q.limit) =>
                   Range(r.page) \cap Range(The(last.ret).page) = {}]_vars

\* C17: the total get_paginated_with_filters returns is the number of
\* entities matching the specification, whatever skip and limit are: what
\* count_by_specification returns for that specification, and the number of
\* all entities when the specification is left out or has no filter; and
\* count_by_specification returns that number.
C17_TotalIsCount ==
    /\ last.op = "get_paginated_with_filters" =>
          LET q == The(last.arg)
              total == The(last.ret).total
          IN /\ total = Cardinality(Matching(q))
             /\ q.spec # {} =>
                   total = SQLAlchemyRepository_count_by_specification(Ctx, "Item", The(q.spec))
             /\ PaginatedFilter(q.spec) = NoFilter =>
                   total = Cardinality({k \in DOMAIN db : k[1] = "Item"})
    /\ last.op = "count_by_specification" =>
          The(last.ret) = Cardinality(Matching(The(last.arg)))

\* C17's case: a page asked for past the only entity that matches a filter
\* which leaves the other entity out: the page is empty, the total is one,
\* the store holds two.
C17_Witness ==
    /\ last.op = "get_paginated_with_filters"
    /\ The(last.arg).skip = 1
    /\ The(last.arg).limit = 1
    /\ The(last.ret).total = 1
    /\ Len(The(last.ret).page) = 0
    /\ Cardinality({k \in DOMAIN db : k[1] = "Item"}) = 2

\* Whether the session in use sees an entity of the repositories' class with
\* this id.
Present(id) == \E cls \in RepoClasses : <<cls, id>> \in DOMAIN View(Ctx)

\* What the delete recorded in l returned, as a truth value:
\* SQLAlchemyRepository.delete returns a bool, Repository.delete the deleted
\* object or None.
Truthy(l) == IF l.op = "delete" THEN l.ret = {TRUE} ELSE l.ret # {}

DeleteOps == {"delete", "Repository.delete"}

\* The effect C18 asks of one delete(id): found, it returns true and stages
\* the removal (the session no longer sees the entity, the committed rows
\* are as before); not found, it returns false and changes nothing.
DeleteOutcome ==
    LET id == The(last'.arg)
    IN IF Present(id)
       THEN /\ Truthy(last')
            /\ \A cls \in RepoClasses : <<cls, id>> \notin DOMAIN View(Ctx')
            /\ db' = db
       ELSE /\ ~Truthy(last')
            /\ sess' = sess
            /\ db' = db

\* A delete(id) that follows a delete(id) in the same transaction.
SecondInTransaction ==
    /\ last.op \in DeleteOps
    /\ last'.op \in DeleteOps
    /\ last.arg = last'.arg

\* A delete(id) that opens the transaction after one which removed the
\* entity with that id and was ended by the operation ending.
SecondAfter(ending) ==
    /\ last.op = ending
    /\ last'.op \in DeleteOps
    /\ \E cls \in RepoClasses : <<cls, The(last'.arg)>> \in last.ret

\* C18 as stated: delete(id) returns true and stages the removal when the
\* entity exists, false without any change when it does not; so a delete(id)
\* that comes after a first delete(id), in the same unit of work or in a
\* later one, however the first one's ended, returns false.
C18_Original ==
    [][last'.op \in DeleteOps =>
          /\ DeleteOutcome
          /\ SecondInTransaction => ~Truthy(last')
          /\ SecondAfter("commit") => ~Truthy(last')
          /\ SecondAfter("rollback") => ~Truthy(last')]_vars

\* C18, amended: delete(id) returns true and stages the removal when the
\* session sees an entity with that id, and returns false without raising
\* and without changing anything when it does not; so a second delete(id)
\* returns false in the same unit of work and in a later one when the first
\* one's unit of work committed; when it rolled back, the entity is still
\* there and delete(id) returns true again.
C18_DeleteIdempotent ==
    [][last'.op \in DeleteOps =>
          /\ DeleteOutcome
          /\ SecondInTransaction => ~Truthy(last')
          /\ SecondAfter("commit") => ~Truthy(last')
          /\ SecondAfter("rollback") => Truthy(last')]_vars

\* C18's case: a delete of an id right after a delete of the same id, which
\* returned false; the first delete's removal is staged, not committed.
C18_Witness ==
    /\ last.op \in DeleteOps
    /\ ~Truthy(last)
    /\ \E cls \in RepoClasses : <<cls, The(last.arg)>> \in sess.gone

----------------------------------------------------------------------------
(* Repository.update on the entities of a store: partial updates by an     *)
(* ItemUpdate, and by a dict.                                              *)

\* ItemUpdate objects: each field unset (or None), or set.
PartialUpdates ==
    {[title |-> t, description |-> d, is_active |-> a] :
        t \in Opt({"Alpha", "default", ""}), d \in Opt(Descriptions), a \in Opt(BOOLEAN)}

\* Dicts handed to Repository.update in place of a schema: a dict may carry
\* any attribute of the model, the primary key among them.  The ids it
\* carries here are ids the sequence has passed that no row the session
\* sees has (a taken id makes the flush raise IntegrityError).
UpdateDicts(c, cls) ==
    {[is_active |-> a, id |-> {id}] :
        a \in Opt({FALSE}),
        id \in {i \in 1..(c.seq[cls] - 1) : <<cls, i>> \notin DOMAIN View(c)}}

\* The stores the updates are made on: any of the item ids, with any title,
\* description and is_active.
UpdateStores ==
    UNION {{d \in [items -> [id : Ids("Item"), title : {"Alpha", "default"},
                             description : Opt(Descriptions), is_active : BOOLEAN,
                             owner_id : {{}}]] : WellFormed(d)}
           : items \in SUBSET {<<"Item", id>> : id \in Ids("Item")}}

InitUpdate ==
    /\ db \in UpdateStores
    /\ seq = [cls \in Classes |-> MaxIdOf(cls) + 1]
    /\ sess = EmptySession
    /\ made = 0
    /\ uow = NewUnitOfWork
    /\ pc = "idle"
    /\ dbAtEnter = EmptyTable
    /\ app = NewApplication
    /\ reqs = NoRequests
    /\ last = Op("init", Ctx, {})

\* Repository.update(db_obj=the entity with key k, obj_in=obj_in)
Updated(k, obj_in) ==
    LET c == Repository_update(Ctx, k, obj_in)
    IN /\ Store(c)
       /\ last' = [Op("Repository.update", c, {})
                       EXCEPT !.arg = {[key |-> k, obj_in |-> obj_in]}]
       /\ UNCHANGED uowVars

UpdateBySchema ==
    /\ last.op = "init"
    /\ \E k \in Keys(Ctx, "Item") : \E obj_in \in PartialUpdates : Updated(k, obj_in)

UpdateByDict ==
    /\ last.op = "init"
    /\ \E k \in Keys(Ctx, "Item") : \E obj_in \in UpdateDicts(Ctx, "Item") :
          Updated(k, obj_in)

NextUpdate ==
    \/ UpdateBySchema
    \/ UpdateByDict
    \/ CallerCommit
    \/ CallerRollback

SpecUpdate == InitUpdate /\ [][NextUpdate]_vars

\* The value update is to leave in field f of the row old: the value obj_in
\* sets, if it sets one that is not None, else the old one.
Expected(old, obj_in, f) ==
    IF f \in DOMAIN obj_in /\ obj_in[f] # {}
    THEN IF f = "description" THEN obj_in[f] ELSE The(obj_in[f])
    ELSE old[f]

\* C19: Repository.update(db_obj, obj_in) overwrites exactly the fields of
\* db_obj that obj_in sets to a value that is not None, leaves its other
\* fields as they were, leaves its id as it was, and touches no other
\* entity.
C19_UpdateFrame ==
    [][last'.op = "Repository.update" =>
          LET k == The(last'.arg).key
              obj_in == The(last'.arg).obj_in
              old == View(Ctx)[k]
          IN /\ DOMAIN View(Ctx') = DOMAIN View(Ctx)
             /\ View(Ctx')[k].id = old.id
             /\ \A f \in {"title", "description", "is_active"} :
                   View(Ctx')[k][f] = Expected(old, obj_in, f)
             /\ View(Ctx')[k].owner_id = old.owner_id
             /\ \A j \in DOMAIN View(Ctx) \ {k} : View(Ctx')[j] = View(Ctx)[j]]_vars

----------------------------------------------------------------------------
(* The repository cache of the unit of work: the unit of work is entered   *)
(* and exited, its transaction ended by hand, and repositories are asked   *)
(* for every model class.                                                  *)

\* uow.repository(model_class), for any model class.
CacheRepository ==
    /\ \E cls \in Classes : DoGetRepository(cls)
    /\ UNCHANGED <<db, seq, sess, made, pc, dbAtEnter, app, reqs>>

NextCache == Enter \/ Exit \/ Commit \/ Rollback \/ CacheRepository

SpecCache == Init /\ [][NextCache]_vars

\* The cache holds different instances for different model classes.
OnePerClass(u) ==
    \A t1 \in DOMAIN u.repositories : \A t2 \in DOMAIN u.repositories :
        t1 # t2 => u.repositories[t1] # u.repositories[t2]

\* Every entry of the cache of u is in the cache of v, with its instance.
Keeps(u, v) ==
    \A t \in DOMAIN u.repositories :
        t \in DOMAIN v.repositories /\ v.repositories[t] = u.repositories[t]

----------------------------------------------------------------------------
(* The nested transaction scope of the unit of work: "async with           *)
(* uow.transaction():" around an empty body, on a unit of work that is     *)
(* entered, exited and used in between (rows are created in its block).    *)

\* Mutant of UowTransaction: the scope is opened without looking at the
\* session.
UowTransaction_Unguarded(c, u) ==
    [c |-> Log(c, "begin_nested"), raised |-> "", yielded |-> {u.session}]

\* transaction(): with a session, self.session.begin_nested() opens a
\* savepoint and the session is yielded; else RuntimeError.
UowTransaction(c, u) ==
    IF u.session # NoSession
    THEN [c |-> Log(c, "begin_nested"), raised |-> "", yielded |-> {u.session}]
    ELSE [c |-> c, raised |-> "No active session", yielded |-> {}]

\* async with uow.transaction(): pass
Transaction ==
    /\ LET r == UowTransaction(Ctx, uow)
       IN /\ Store(r.c)
          /\ last' = [Op("transaction", r.c, r.yielded) EXCEPT !.observed = r.raised]
    /\ UNCHANGED <<made, uow, pc, dbAtEnter, app, reqs>>

NextNested == Enter \/ Exit \/ Commit \/ Rollback \/ SqlaCreate \/ Transaction

SpecNested == Init /\ [][NextNested]_vars

----------------------------------------------------------------------------
(* The life of one unit-of-work instance (specification Spec).             *)

\* C22 (as stated): the unit of work holds a session exactly while it is
\* between enter and exit, and once it has exited it is never active
\* again: no later enter opens a session.
C22_SingleUse ==
    [][/\ (uow.session # NoSession) <=> (pc = "active")
       /\ pc = "exited" => (pc' = "exited" /\ made' = made)]_vars

----------------------------------------------------------------------------
(* Entering the unit of work while the store is or is not reachable.       *)

\* __aenter__: self.session = self.session_factory(); return self.  handle
\* is the session the factory constructs.  The body has no await and the
\* factory call opens no connection, so whether the store is reachable
\* has no part in it: nothing is raised.
Aenter(u, handle, reachable) ==
    [uow |-> [u EXCEPT !.session = handle], raised |-> ""]

\* async with uow: entered while the store is reachable or not.
EnterStore ==
    /\ pc \in {"idle", "exited"}
    /\ made < MaxSessions
    /\ \E reachable \in BOOLEAN :
        LET r == Aenter(uow, made + 1, reachable)
        IN /\ uow' = r.uow
           /\ pc' = IF r.raised = "" THEN "active" ELSE pc
           /\ last' = [Op("enter", Ctx, {made + 1}) EXCEPT
                           !.arg = {reachable}, !.observed = r.raised]
    /\ made' = made + 1
    /\ sess' = EmptySession
    /\ dbAtEnter' = db
    /\ UNCHANGED <<db, seq, app, reqs>>

NextEnter == EnterStore \/ Exit \/ Commit \/ Rollback \/ SqlaCreate

SpecEnter == Init /\ [][NextEnter]_vars

\* C23 (as stated): an enter makes one call of the session factory and
\* holds the session it returned, one no earlier enter held; an enter made
\* while the store is unreachable raises and leaves the unit of work
\* without a session, not Active.
C23_EnterFailsLoudly ==
    [][last'.op = "enter" =>
          /\ made' = made + 1
          /\ last'.arg = {TRUE} =>
                /\ uow'.session = made'
                /\ pc' = "active"
          /\ last'.arg = {FALSE} =>
                /\ last'.observed # ""
                /\ pc' # "active"]_vars

----------------------------------------------------------------------------
(* Database errors and their HTTP translation (app/core/exceptions.py).    *)
(* An error is [kind, text, entity_type, entity_name, reason,              *)
(* dependencies]: kind is its class, text is str(error), given as the set  *)
(* of phrases the text contains as written; the last four are filled for   *)
(* a DeletionValidationError only.  None is the empty set.                 *)

HTTP_409_CONFLICT == 409
HTTP_500_INTERNAL_SERVER_ERROR == 500
HTTP_503_SERVICE_UNAVAILABLE == 503
HTTP_504_GATEWAY_TIMEOUT == 504

\* Subclasses of DatabaseError, and DatabaseError itself.
ErrorKinds ==
    {"DatabaseConnectionError", "DatabaseTimeoutError", "DatabaseConstraintError",
     "DatabaseDataError", "DatabaseOperationError", "DeletionValidationError",
     "DatabaseError"}

\* Phrases of store messages, as the store writes them.
Phrases ==
    {"unique constraint", "Duplicate key", "foreign key constraint",
     "NOT NULL constraint"}

\* str.lower() on a phrase.
Lower(p) ==
    CASE p = "Duplicate key" -> "duplicate key"
      [] p = "NOT NULL constraint" -> "not null constraint"
      [] OTHER -> p

\* phrase in str(error).lower()
InLower(phrase, text) == phrase \in {Lower(p) : p \in text}

DbError(kind, text) ==
    [kind |-> kind, text |-> text,
     entity_type |-> IF kind = "DeletionValidationError" THEN "User" ELSE "",
     entity_name |-> IF kind = "DeletionValidationError" THEN "user 1" ELSE "",
     reason |-> IF kind = "DeletionValidationError" THEN "owns items" ELSE "",
     dependencies |-> IF kind = "DeletionValidationError" THEN {<<"Item", 1>>} ELSE {}]

DbErrors == {DbError(kind, text) : kind \in ErrorKinds, text \in SUBSET Phrases}

\* {"original_error": str(error)}
OriginalError(error) == {[original_error |-> error.text]}

create_http_exception(status_code, error, message, field, details) ==
    [status_code |-> status_code,
     detail |-> [error |-> error, message |-> message, field |-> field,
                 details |-> details]]

\* "message or <default>": the default when no message is given.
OrDefault(message, default) == IF message = {} THEN {default} ELSE message

database_connection_error(message, details) ==
    create_http_exception(HTTP_503_SERVICE_UNAVAILABLE, "database_connection_error",
        OrDefault(message, "Unable to connect to the database. Please try again later."),
        {}, details)

database_timeout_error(message, details) ==
    create_http_exception(HTTP_504_GATEWAY_TIMEOUT, "database_timeout",
        OrDefault(message, "Database operation timed out. Please try again."),
        {}, details)

database_constraint_error(message, field, details) ==
    create_http_exception(HTTP_409_CONFLICT, "constraint_violation",
        OrDefault(message, "The operation violates database constraints."),
        field, details)

database_data_error(message, field, details) ==
    create_http_exception(HTTP_400_BAD_REQUEST, "invalid_data",
        OrDefault(message, "The provided data is invalid or in the wrong format."),
        field, details)

database_operation_error(message, details) ==
    create_http_exception(HTTP_500_INTERNAL_SERVER_ERROR, "database_error",
        OrDefault(message, "An error occurred while processing your request."),
        {}, details)

deletion_validation_error(error) ==
    create_http_exception(HTTP_409_CONFLICT, "deletion_prevented",
        {error.text}, {error.entity_type},
        {[entity_type |-> error.entity_type, entity_name |-> error.entity_name,
          reason |-> error.reason, dependencies |-> error.dependencies]})

\* Mutant of ConstraintToHttp: every constraint violation is a conflict.
ConstraintToHttp_AllConflict(error) ==
    database_constraint_error({}, {}, OriginalError(error))

\* The DatabaseConstraintError branch of translate_db_error_to_http.
ConstraintToHttp(error) ==
    IF InLower("unique constraint", error.text) \/ InLower("duplicate key", error.text)
    THEN database_constraint_error(
             {"This item already exists. Please use a different value."},
             {}, OriginalError(error))
    ELSE IF InLower("foreign key constraint", error.text)
    THEN create_http_exception(HTTP_400_BAD_REQUEST, "foreign_key_violation",
             {"This operation references data that doesn't exist."},
             {}, OriginalError(error))
    ELSE IF InLower("not null constraint", error.text)
    THEN create_http_exception(HTTP_400_BAD_REQUEST, "required_field_missing",
             {"A required field is missing."}, {}, OriginalError(error))
    ELSE database_constraint_error({}, {}, OriginalError(error))

translate_db_error_to_http(error) ==
    IF error.kind = "DatabaseConnectionError"
    THEN database_connection_error({}, OriginalError(error))
    ELSE IF error.kind = "DatabaseTimeoutError"
    THEN database_timeout_error({}, OriginalError(error))
    ELSE IF error.kind = "DeletionValidationError"
    THEN deletion_validation_error(error)
    ELSE IF error.kind = "DatabaseConstraintError"
    THEN ConstraintToHttp(error)
    ELSE IF error.kind = "DatabaseDataError"
    THEN database_data_error({}, {}, OriginalError(error))
    ELSE database_operation_error({}, OriginalError(error))

\* translate_db_error_to_http(error)
Translate ==
    /\ last.op = "init"
    /\ The(last.arg) \in DbErrors
    /\ last' = [Op("translate", Ctx, {translate_db_error_to_http(The(last.arg))})
                    EXCEPT !.arg = last.arg]
    /\ UNCHANGED <<db, seq, sess>>
    /\ UNCHANGED uowVars

\* The constraint sub-kinds a text names, by the phrases it contains in any
\* letter case.
NamesUnique(text) == InLower("unique constraint", text) \/ InLower("duplicate key", text)
NamesForeignKey(text) == InLower("foreign key constraint", text)
NamesNotNull(text) == InLower("not null constraint", text)

\* C24: translate_db_error_to_http answers every database error, of any
\* class and text: a connection error with 503, a timeout with 504 (so
\* never with the status the connection error of the same text gets), a
\* deletion blocked by dependents with 409 and the entity type, entity
\* name, reason and dependents in the details, a constraint violation with
\* 409 when its text names a unique or duplicate-key violation only or no
\* known sub-kind, with 400 when it names a foreign-key or not-null
\* violation only, a data error with 400, and any other database error
\* with 500.
C24_TotalMapping ==
    last.op = "translate" =>
        LET error == The(last.arg)
            r == The(last.ret)
            s == r.status_code
            text == error.text
        IN /\ s \in {HTTP_400_BAD_REQUEST, HTTP_409_CONFLICT, HTTP_500_INTERNAL_SERVER_ERROR,
                     HTTP_503_SERVICE_UNAVAILABLE, HTTP_504_GATEWAY_TIMEOUT}
           /\ error.kind = "DatabaseConnectionError" => s = HTTP_503_SERVICE_UNAVAILABLE
           /\ error.kind = "DatabaseTimeoutError" =>
                 /\ s = HTTP_504_GATEWAY_TIMEOUT
                 /\ s # translate_db_error_to_http(
                            DbError("DatabaseConnectionError", text)).status_code
           /\ error.kind = "DeletionValidationError" =>
                 /\ s = HTTP_409_CONFLICT
                 /\ r.detail.details =
                        {[entity_type |-> error.entity_type, entity_name |-> error.entity_name,
                          reason |-> error.reason, dependencies |-> error.dependencies]}
           /\ error.kind = "DatabaseConstraintError" =>
                 /\ s \in {HTTP_400_BAD_REQUEST, HTTP_409_CONFLICT}
                 /\ (~NamesForeignKey(text) /\ ~NamesNotNull(text)) => s = HTTP_409_CONFLICT
                 /\ ((NamesForeignKey(text) \/ NamesNotNull(text)) /\ ~NamesUnique(text))
                        => s = HTTP_400_BAD_REQUEST
           /\ error.kind = "DatabaseDataError" => s = HTTP_400_BAD_REQUEST
           /\ error.kind \in {"DatabaseOperationError", "DatabaseError"}
                 => s = HTTP_500_INTERNAL_SERVER_ERROR

\* A constraint violation whose text names a not-null violation, in
\* capitals, was translated to 400.
C24_Witness ==
    /\ last.op = "translate"
    /\ The(last.arg).kind = "DatabaseConstraintError"
    /\ The(last.arg).text = {"NOT NULL constraint"}
    /\ The(last.ret).status_code = HTTP_400_BAD_REQUEST

----------------------------------------------------------------------------
(* The HTTP boundary: what a request is answered with when an exception    *)
(* leaves its dependencies or its handler (app/data/database.py get_db,    *)
(* app/core/exception_handlers.py).  An exception is [kind, text] like a   *)
(* database error; a store failure is an exception of sqlalchemy.exc.      *)

SqlaKinds ==
    {"OperationalError", "InterfaceError", "TimeoutError", "IntegrityError",
     "DataError", "ProgrammingError"}

\* Phrases of the messages of store failures.
StorePhrases == {"Connection refused", "timeout expired", "syntax error"}

\* The words of str.lower() of a phrase.
LowerWords(p) ==
    CASE p = "Connection refused" -> {"connection", "refused"}
      [] p = "timeout expired" -> {"timeout", "expired"}
      [] p = "syntax error" -> {"syntax", "error"}
      [] OTHER -> {}

\* word in str(e).lower()
Mentions(word, text) == \E p \in text : word \in LowerWords(p)

StoreFailures ==
    {[kind |-> kind, text |-> text] :
        kind \in SqlaKinds, text \in (SUBSET StorePhrases) \ {{}}}

\* ERROR_MAPPING
ERROR_MAPPING ==
    [kind \in SqlaKinds |->
        CASE kind = "IntegrityError" -> "DatabaseConstraintError"
          [] kind = "OperationalError" -> "DatabaseConnectionError"
          [] kind = "InterfaceError" -> "DatabaseConnectionError"
          [] kind = "ProgrammingError" -> "DatabaseOperationError"
          [] kind = "DataError" -> "DatabaseDataError"
          [] kind = "TimeoutError" -> "DatabaseTimeoutError"]

convert_sqlalchemy_error(error) ==
    IF error.kind \in SqlaKinds THEN DbError(ERROR_MAPPING[error.kind], error.text)
    ELSE IF error.kind \in ErrorKinds THEN error
    ELSE DbError("DatabaseOperationError", error.text \cup {"Unexpected database error"})

\* get_db when the store fails.  where = "acquire": session.execute(text(
\* "SELECT 1")) raises e, and the inner handler raises the built-in
\* ConnectionError.  where = "call": e is raised in the request's handler
\* and thrown into the generator at its yield; the outer handler raises
\* the built-in ConnectionError or RuntimeError, by the words of the text.
get_db(where, e) ==
    IF where = "acquire"
    THEN [kind |-> "ConnectionError",
          text |-> e.text \cup {"Failed to establish database connection"}]
    ELSE IF Mentions("connection", e.text) \/ Mentions("timeout", e.text)
    THEN [kind |-> "ConnectionError", text |-> e.text \cup {"Database connection error"}]
    ELSE [kind |-> "RuntimeError", text |-> e.text \cup {"Database operation error"}]

\* The handlers of add_exception_handlers for the DatabaseError classes:
\* JSONResponse(status_code, content=http_exception.detail).
database_error_handler(exc) ==
    LET http_exception == translate_db_error_to_http(exc)
    IN [status_code |-> http_exception.status_code, content |-> {http_exception.detail}]

\* The response to a request an exception has left: that of the handler
\* registered for its class, and for a class with no handler the server's
\* plain "Internal Server Error".
Respond(exc) ==
    IF exc.kind \in ErrorKinds THEN database_error_handler(exc)
    ELSE IF exc.kind = "ValueError"
    THEN [status_code |-> HTTP_400_BAD_REQUEST, content |-> {[detail |-> exc.text]}]
    ELSE [status_code |-> HTTP_500_INTERNAL_SERVER_ERROR, content |-> {"Internal Server Error"}]

\* Where a request meets a store failure.
FailedRequests ==
    {[where |-> where, failure |-> e] : where \in {"acquire", "call"}, e \in StoreFailures}

\* A database error is at hand, or a request is about to meet a store
\* failure.
InitError ==
    /\ db = EmptyTable
    /\ seq = [cls \in Classes |-> 1]
    /\ sess = EmptySession
    /\ made = 0
    /\ uow = NewUnitOfWork
    /\ pc = "idle"
    /\ dbAtEnter = EmptyTable
    /\ app = NewApplication
    /\ reqs = NoRequests
    /\ \E x \in DbErrors \cup FailedRequests :
          last = [Op("init", Ctx, {}) EXCEPT !.arg = {x}]

\* convert_sqlalchemy_error(error), then translate_db_error_to_http.
Convert ==
    /\ last.op = "init"
    /\ The(last.arg) \in FailedRequests
    /\ last' = [Op("convert", Ctx,
                   {translate_db_error_to_http(
                        convert_sqlalchemy_error(The(last.arg).failure))})
                    EXCEPT !.arg = last.arg]
    /\ UNCHANGED <<db, seq, sess>>
    /\ UNCHANGED uowVars

\* A handler or dependency of a request raises a database error.
RaiseDatabaseError ==
    /\ last.op = "init"
    /\ The(last.arg) \in DbErrors
    /\ last' = [Op("respond", Ctx, {Respond(The(last.arg))}) EXCEPT !.arg = last.arg]
    /\ UNCHANGED <<db, seq, sess>>
    /\ UNCHANGED uowVars

\* A request meets a store failure, at the acquisition of its session or in
\* a repository call of its service.
Request ==
    /\ last.op = "init"
    /\ The(last.arg) \in FailedRequests
    /\ LET q == The(last.arg)
       IN last' = [Op("request", Ctx, {Respond(get_db(q.where, q.failure))})
                       EXCEPT !.arg = last.arg]
    /\ UNCHANGED <<db, seq, sess>>
    /\ UNCHANGED uowVars

NextError == Translate \/ Convert \/ RaiseDatabaseError \/ Request

SpecError == InitError /\ [][NextError]_vars

\* C25 (as stated): a request that meets an unreachable store, at the
\* acquisition of its session or in a repository call, is answered with
\* 503, and one that meets a store timeout with 504.
C25_Unavailable ==
    last.op = "request" =>
        LET e == The(last.arg).failure
            s == The(last.ret).status_code
        IN /\ (e.kind \in {"OperationalError", "InterfaceError"}
                 /\ "Connection refused" \in e.text) => s = HTTP_503_SERVICE_UNAVAILABLE
           /\ e.kind = "TimeoutError" => s = HTTP_504_GATEWAY_TIMEOUT

\* C26 (as stated): the response to a generic database error is the same
\* whatever the text of the error, and no phrase of the text is in it.
C26_NoEcho ==
    (/\ last.op = "respond"
     /\ The(last.arg).kind \in {"DatabaseOperationError", "DatabaseError"}) =>
        /\ \A text \in SUBSET Phrases :
              Respond(DbError(The(last.arg).kind, text)) = The(last.ret)
        /\ \A d \in The(The(last.ret).content).details :
              d.original_error \cap The(last.arg).text = {}

----------------------------------------------------------------------------
(* The shared Redis and S3 clients (app/infrastructure/redis_client.py,    *)
(* s3_client.py) and the lifespan of the application                       *)
(* (app/core/lifespan.py).  A connect is given its outcome: "ok", or the   *)
(* statement of its try block that raises.                                 *)

RedisOutcomes == {"ok", "from_url", "ping"}
S3Outcomes == {"ok", "client", "resource", "list_buckets"}

\* RedisClient.connect(): returns at once when _pool is set; else sets
\* _pool, then _client, then pings, and re-raises what any of them raised.
RedisClient_connect(r, outcome) ==
    IF r.pool
    THEN [client |-> r, raised |-> FALSE, tried |-> FALSE]
    ELSE IF outcome = "from_url"
    THEN [client |-> [r EXCEPT !.connected = FALSE], raised |-> TRUE, tried |-> TRUE]
    ELSE IF outcome = "ping"
    THEN [client |-> [pool |-> TRUE, client |-> TRUE, connected |-> FALSE],
          raised |-> TRUE, tried |-> TRUE]
    ELSE [client |-> [pool |-> TRUE, client |-> TRUE, connected |-> TRUE],
          raised |-> FALSE, tried |-> TRUE]

\* RedisClient.disconnect()
RedisClient_disconnect(r) == [pool |-> FALSE, client |-> FALSE, connected |-> FALSE]

\* RedisClient.get_client()
RedisClient_get_client(r) ==
    IF ~r.client
    THEN [returned |-> FALSE, raised |-> "Redis client not initialized. Call connect() first."]
    ELSE [returned |-> TRUE, raised |-> ""]

\* S3Client.connect(): returns at once when _client is set; else sets
\* _client, then _resource, then lists the buckets, and re-raises.
S3Client_connect(r, outcome) ==
    IF r.client
    THEN [client |-> r, raised |-> FALSE, tried |-> FALSE]
    ELSE IF outcome = "client"
    THEN [client |-> [r EXCEPT !.connected = FALSE], raised |-> TRUE, tried |-> TRUE]
    ELSE IF outcome = "resource"
    THEN [client |-> [r EXCEPT !.client = TRUE, !.connected = FALSE],
          raised |-> TRUE, tried |-> TRUE]
    ELSE IF outcome = "list_buckets"
    THEN [client |-> [client |-> TRUE, resource |-> TRUE, connected |-> FALSE],
          raised |-> TRUE, tried |-> TRUE]
    ELSE [client |-> [client |-> TRUE, resource |-> TRUE, connected |-> TRUE],
          raised |-> FALSE, tried |-> TRUE]

\* S3Client.disconnect()
S3Client_disconnect(r) == [client |-> FALSE, resource |-> FALSE, connected |-> FALSE]

\* S3Client.get_client()
S3Client_get_client(r) ==
    IF ~r.client
    THEN [returned |-> FALSE, raised |-> "S3 client not initialized. Call connect() first."]
    ELSE [returned |-> TRUE, raised |-> ""]

Clients == {"redis", "s3"}

OutcomesOf(which) == IF which = "redis" THEN RedisOutcomes ELSE S3Outcomes

ClientConnect(which, r, outcome) ==
    IF which = "redis" THEN RedisClient_connect(r, outcome) ELSE S3Client_connect(r, outcome)

ClientDisconnect(which, r) ==
    IF which = "redis" THEN RedisClient_disconnect(r) ELSE S3Client_disconnect(r)

ClientGet(which, r) ==
    IF which = "redis" THEN RedisClient_get_client(r) ELSE S3Client_get_client(r)

\* Mutant of lifespan_except: the failure of an optional client is raised
\* again.
lifespan_except_Reraises(raised) == raised

\* "try: ... connect() except Exception as e: logger.warning(...)": whether
\* what the connect raised leaves the try statement.
lifespan_except(raised) == FALSE

\* lifespan up to its yield.  db_ok: the SELECT 1 of the database check
\* succeeds.  calls: the checks and connects made, in order.
lifespan_startup(a, db_ok, redis_outcome, s3_outcome) ==
    IF ~db_ok
    THEN [app |-> [a EXCEPT !.phase = "aborted"], raised |-> TRUE,
          calls |-> <<"SELECT 1">>]
    ELSE LET r == RedisClient_connect(a.redis, redis_outcome)
             a1 == [a EXCEPT !.redis = r.client]
         IN IF lifespan_except(r.raised)
            THEN [app |-> [a1 EXCEPT !.phase = "aborted"], raised |-> TRUE,
                  calls |-> <<"SELECT 1", "redis.connect">>]
            ELSE LET s == S3Client_connect(a1.s3, s3_outcome)
                     a2 == [a1 EXCEPT !.s3 = s.client]
                 IN IF lifespan_except(s.raised)
                    THEN [app |-> [a2 EXCEPT !.phase = "aborted"], raised |-> TRUE,
                          calls |-> <<"SELECT 1", "redis.connect", "s3.connect">>]
                    ELSE [app |-> [a2 EXCEPT !.phase = "serving"], raised |-> FALSE,
                          calls |-> <<"SELECT 1", "redis.connect", "s3.connect">>]

\* lifespan after its yield: both clients disconnected, the engine disposed.
lifespan_shutdown(a) ==
    [a EXCEPT !.phase = "stopped",
              !.redis = RedisClient_disconnect(a.redis),
              !.s3 = S3Client_disconnect(a.s3)]

appFrame == <<db, seq, sess, made, uow, pc, dbAtEnter, reqs>>

\* The server starts the application.
Startup ==
    /\ app.phase = "created"
    /\ \E db_ok \in BOOLEAN : \E ro \in RedisOutcomes : \E so \in S3Outcomes :
        LET r == lifespan_startup(app, db_ok, ro, so)
        IN /\ app' = r.app
           /\ last' = [Op("startup", [Ctx EXCEPT !.calls = r.calls], {r.raised})
                           EXCEPT !.arg = {[db_ok |-> db_ok, redis |-> ro, s3 |-> so]}]
    /\ UNCHANGED appFrame

\* The server stops the application.
Shutdown ==
    /\ app.phase = "serving"
    /\ app' = lifespan_shutdown(app)
    /\ last' = Op("shutdown", Ctx, {})
    /\ UNCHANGED appFrame

\* connect() of a client, called by the lifespan's caller or anyone else.
Connect ==
    /\ \E which \in Clients : \E outcome \in OutcomesOf(which) :
        LET r == ClientConnect(which, app[which], outcome)
        IN /\ app' = [app EXCEPT ![which] = r.client]
           /\ last' = [Op("connect", Ctx, {r.tried}) EXCEPT
                           !.arg = {[which |-> which, outcome |-> outcome]},
                           !.observed = IF r.raised THEN "ConnectError" ELSE ""]
    /\ UNCHANGED appFrame

Disconnect ==
    /\ \E which \in Clients :
        /\ app' = [app EXCEPT ![which] = ClientDisconnect(which, app[which])]
        /\ last' = [Op("disconnect", Ctx, {}) EXCEPT !.arg = {[which |-> which]}]
    /\ UNCHANGED appFrame

GetClient ==
    /\ \E which \in Clients :
        LET r == ClientGet(which, app[which])
        IN last' = [Op("get_client", Ctx, {r.returned}) EXCEPT
                        !.arg = {[which |-> which]}, !.observed = r.raised]
    /\ UNCHANGED app
    /\ UNCHANGED appFrame

HTTP_200_OK == 200

\* check_database(): "healthy" when both statements succeed, "unhealthy"
\* when anything raises.
check_database(db_ok) ==
    IF db_ok THEN [status |-> "healthy", message |-> "Database connection successful"]
    ELSE [status |-> "unhealthy", message |-> "Database connection failed"]

\* readiness(): what the function returns, a dict or a pair of a dict and
\* a number.
readiness(db_health) ==
    IF db_health.status = "healthy"
    THEN <<[status |-> "ready", database |-> "connected"]>>
    ELSE <<[status |-> "not_ready", reason |-> "database_unavailable"],
           HTTP_503_SERVICE_UNAVAILABLE>>

\* The response of a route declared with @router.get(path) and no
\* status_code, whose function returns a value that is no Response: the
\* value is the body, the status is the route's, 200.
RouteResponse(value) == [status_code |-> HTTP_200_OK, body |-> value]

\* GET /readiness
Readiness ==
    /\ \E db_ok \in BOOLEAN :
        last' = [Op("readiness", Ctx, {RouteResponse(readiness(check_database(db_ok)))})
                     EXCEPT !.arg = {[db_ok |-> db_ok]}]
    /\ UNCHANGED app
    /\ UNCHANGED appFrame

NextApp == Startup \/ Shutdown \/ Connect \/ Disconnect \/ GetClient \/ Readiness

SpecApp == Init /\ [][NextApp]_vars

\* C27: the lifespan reaches its serving state exactly when the database
\* check succeeds, whatever the Redis and S3 connects do; when the check
\* succeeds both connects are attempted, the S3 connect also after a
\* failed Redis connect; when it fails the startup raises and nothing
\* else is attempted.
C27_GracefulStartup ==
    last.op = "startup" =>
        LET in == The(last.arg)
        IN /\ (app.phase = "serving") <=> in.db_ok
           /\ in.db_ok =>
                 /\ last.ret = {FALSE}
                 /\ last.calls = <<"SELECT 1", "redis.connect", "s3.connect">>
           /\ ~in.db_ok =>
                 /\ last.ret = {TRUE}
                 /\ app.phase = "aborted"
                 /\ last.calls = <<"SELECT 1">>

\* The database check succeeded, both connects failed at their connection
\* tests, and the application serves.
C27_Witness ==
    /\ last.op = "startup"
    /\ The(last.arg) = [db_ok |-> TRUE, redis |-> "ping", s3 |-> "list_buckets"]
    /\ app.phase = "serving"

\* C30 (as stated): get_client returns the client exactly while the
\* shared instance is connected, after a connect() that completed and
\* before the next disconnect(), and raises "not initialized" otherwise;
\* a connect() on an instance that is not connected tries to connect.
C30_ClientLifecycle ==
    [][/\ last'.op = "get_client" =>
             LET which == The(last'.arg).which
             IN /\ (last'.ret = {TRUE}) <=> app[which].connected
                /\ ~app[which].connected => last'.observed # ""
       /\ last'.op = "connect" =>
             LET which == The(last'.arg).which
             IN ~app[which].connected => last'.ret = {TRUE}]_vars

\* C28 (as stated): the readiness probe answers 200 exactly when the
\* database check is healthy, and 503 when it is unhealthy.
C28_Readiness ==
    last.op = "readiness" =>
        LET s == The(last.ret).status_code
        IN /\ (s = HTTP_200_OK) <=> The(last.arg).db_ok
           /\ ~The(last.arg).db_ok => s = HTTP_503_SERVICE_UNAVAILABLE

----------------------------------------------------------------------------
(* Concurrent requests (app/services/item_service.py behind                *)
(* app/api/dependencies.py): each request has its own session from get_db  *)
(* and runs create_item or update_item; the statements of different        *)
(* requests interleave at their awaits.  The store is PostgreSQL at its    *)
(* default isolation, read committed: a SELECT sees the rows committed     *)
(* when it runs and the session's own writes; items.title has an index     *)
(* and no unique constraint, so no INSERT or UPDATE is refused for its     *)
(* title.                                                                  *)

Requests == 1..MaxRequests

IdleRequest ==
    [pc |-> "idle", op |-> "", item_id |-> 0, item_data |-> {}, s |-> EmptySession,
     status |-> NoError]

\* The context of a request: the store, and the request's own session.
ReqCtx(r) == [db |-> db, seq |-> seq, s |-> reqs[r].s, calls |-> <<>>]

\* Bodies of the concurrent requests.
RaceCreates == {[title |-> t, description |-> {}, is_active |-> TRUE] : t \in Titles}
RaceUpdates == {[title |-> t, description |-> {}, is_active |-> {}] : t \in Opt(Titles)}

InitRace ==
    /\ db = EmptyTable
    /\ seq = [cls \in Classes |-> 1]
    /\ sess = EmptySession
    /\ made = 0
    /\ uow = NewUnitOfWork
    /\ pc = "idle"
    /\ dbAtEnter = EmptyTable
    /\ app = NewApplication
    /\ reqs = [r \in Requests |-> IdleRequest]
    /\ last = Op("init", Ctx, {})

raceFrame == <<sess, made, uow, pc, dbAtEnter, app>>

\* create_item to its uniqueness check: get_by_title, and the 400 when the
\* title is taken.
CreateCheck(r) ==
    /\ reqs[r].pc = "idle"
    /\ \E item_data \in RaceCreates :
        LET c1 == SessionExecute(ReqCtx(r), "Item")
            existing_item == ItemRepository_get_by_title(c1, item_data.title)
        IN /\ reqs' = [reqs EXCEPT ![r] =
                        IF existing_item # {}
                        THEN [@ EXCEPT !.pc = "done", !.op = "create_item",
                                       !.status = HTTP_400_BAD_REQUEST]
                        ELSE [@ EXCEPT !.pc = "checked", !.op = "create_item",
                                       !.item_data = {item_data}, !.s = c1.s]]
           /\ last' = [Op("create_item: check", c1, {}) EXCEPT !.arg = {r}]
    /\ UNCHANGED <<db, seq>>
    /\ UNCHANGED raceFrame

\* update_item to its uniqueness check: get_item, the 404, the check made
\* when the title changes, and the 400 when the title is taken.
UpdateCheck(r) ==
    /\ reqs[r].pc = "idle"
    /\ \E item_id \in 1..MaxItemId : \E item_data \in RaceUpdates :
        LET g == ItemService_get_item(ReqCtx(r), item_id)
            check == g.status = NoError /\ TitleChanges(item_data, The(g.ret))
            c1 == IF check THEN SessionExecute(g.c, "Item") ELSE g.c
            existing == IF check
                        THEN ItemRepository_get_by_title(c1, The(item_data.title))
                        ELSE {}
        IN /\ reqs' = [reqs EXCEPT ![r] =
                        IF g.status # NoError
                        THEN [@ EXCEPT !.pc = "done", !.op = "update_item",
                                       !.status = g.status]
                        ELSE IF existing # {}
                        THEN [@ EXCEPT !.pc = "done", !.op = "update_item",
                                       !.status = HTTP_400_BAD_REQUEST]
                        ELSE [@ EXCEPT !.pc = "checked", !.op = "update_item",
                                       !.item_id = item_id, !.item_data = {item_data},
                                       !.s = c1.s]]
           /\ last' = [Op("update_item: check", c1, {}) EXCEPT !.arg = {r}]
    /\ UNCHANGED <<db, seq>>
    /\ UNCHANGED raceFrame

\* The rows other requests have written and not committed: an UPDATE of
\* such a row waits for its writer.
LockedByOthers(r) ==
    UNION {DOMAIN reqs[o].s.writes : o \in Requests \ {r}}

\* self.items.create(item_data) or self.items.update(db_item, item_data):
\* the INSERT or UPDATE is flushed, not committed.
Stage(r) ==
    /\ reqs[r].pc = "checked"
    /\ LET q == reqs[r]
           c == ReqCtx(r)
           k == <<"Item", IF q.op = "create_item" THEN c.seq["Item"] ELSE q.item_id>>
           c2 == IF q.op = "create_item"
                 THEN Repository_create(c, "Item", The(q.item_data))
                 ELSE Repository_update(c, k, The(q.item_data))
       IN /\ q.op = "create_item" => c.seq["Item"] <= MaxItemId
          /\ q.op = "update_item" => k \in DOMAIN View(c) /\ k \notin LockedByOthers(r)
          /\ seq' = c2.seq
          /\ reqs' = [reqs EXCEPT ![r] = [@ EXCEPT !.pc = "staged", !.item_id = k[2],
                                                   !.s = c2.s]]
          /\ last' = [Op(q.op \o ": write", c2, {}) EXCEPT !.arg = {r}]
    /\ UNCHANGED db
    /\ UNCHANGED raceFrame

\* await self.commit(); await self.refresh(item)
CommitRequest(r) ==
    /\ reqs[r].pc = "staged"
    /\ LET q == reqs[r]
           c3 == BaseService_commit(ReqCtx(r))
           c4 == BaseService_refresh(c3, <<"Item", q.item_id>>)
       IN /\ db' = c4.db
          /\ reqs' = [reqs EXCEPT ![r] = [@ EXCEPT !.pc = "done", !.s = c4.s]]
          /\ last' = [Op(q.op \o ": commit", c4, {}) EXCEPT !.arg = {r}]
    /\ UNCHANGED seq
    /\ UNCHANGED raceFrame

RaceCreateCheck == \E r \in Requests : CreateCheck(r)
RaceUpdateCheck == \E r \in Requests : UpdateCheck(r)
RaceStage == \E r \in Requests : Stage(r)
RaceCommit == \E r \in Requests : CommitRequest(r)

NextRace == RaceCreateCheck \/ RaceUpdateCheck \/ RaceStage \/ RaceCommit

SpecRace == InitRace /\ [][NextRace]_vars

\* C29 (as stated): no two committed items have the same title.
C29_UniqueTitles ==
    \A k1 \in DOMAIN db : \A k2 \in DOMAIN db :
        (k1[1] = "Item" /\ k2[1] = "Item" /\ k1 # k2) => db[k1].title # db[k2].title

====
